---------------------------- MODULE Spec2Model ----------------------------
(***************************************************************************)
(* Model of the AI-insights pipeline of the driver-safety KPI server:      *)
(* the insight parser (_parse_ai_insights and its helpers), the request    *)
(* orchestration of AIInsightsGenerator.generate_insights and the          *)
(* GET /api/ai-insights endpoint that consumes its result.                 *)
(*                                                                         *)
(* Python strings are modelled as sequences of one-character strings, so   *)
(* that len(), strip(), split(), endswith() and the `in` operator are      *)
(* computed on the characters as the interpreter computes them.            *)
(***************************************************************************)
EXTENDS Integers, Sequences, FiniteSets, TLC

VARIABLES
    pc,          \* position of the request being served
    response,    \* text handed to _parse_ai_insights: [none, chars]
    sections,    \* the candidate kinds the response text was composed of
    insights,    \* the list built and returned by _parse_ai_insights
    path,        \* "none", "parallel" or "sequential": how the extractors run
    worker,      \* per extractor: "idle", "running" or "done"
    docs,        \* per extractor: the category document its call returned
    ai_status,   \* "none", "ok" or "failed": what ai_client.chat reported
    ai_calls,    \* number of ai_client.chat calls of the request
    faults,      \* the exceptions raised while serving the request
    result,      \* what generate_insights returned
    http,        \* what GET /api/ai-insights answered
    database,    \* per metric key: what its query meets in the data source
    sample,      \* the value handed to the sanitizers
    converted,   \* what safe_float and safe_int made of data
    cleaned,     \* clean_data_for_json(sample)
    recleaned,   \* clean_data_for_json(cleaned)
    metrics,     \* the sub-metrics a derived score is blended from
    scores,      \* the derived scores computed from metrics
    frame,       \* the rows of the query a bucketing is applied to
    buckets,     \* what the bucketing made of the rows
    _engine,     \* db._engine: 0 for None, else the engine it refers to
    callers,     \* per thread: its position in db.get_engine() and the
                 \* engine it has made there
    engines,     \* number of engines create_engine has made
    returned,    \* per thread: the engines db.get_engine() returned to it
    client,      \* ai_client.client is set: the API client was constructed
    kpi_context, \* the headline lines _prepare_kpi_context built
    current_context,       \* ai_client.current_context
    conversation_history,  \* ai_client.conversation_history
    messages,    \* the messages of the last completion call
    request      \* number of the request being served

parseVars == <<response, sections, insights>>
requestVars == <<path, worker, docs, ai_status, ai_calls, faults, result, http>>
sanitizeVars == <<sample, converted, cleaned, recleaned>>
scoreVars == <<metrics, scores>>
bucketVars == <<frame, buckets>>
engineVars == <<_engine, callers, engines, returned>>
clientVars == <<client, kpi_context, current_context, conversation_history,
                messages, request>>
idleVars == <<database, sanitizeVars, scoreVars, bucketVars, engineVars>>
otherVars == <<idleVars, clientVars>>
vars == <<pc, response, sections, insights, path, worker, docs, ai_status,
          ai_calls, faults, result, http, database, sample, converted, cleaned,
          recleaned, metrics, scores, frame, buckets, _engine, callers,
          engines, returned, client, kpi_context, current_context,
          conversation_history, messages, request>>

-----------------------------------------------------------------------------
(* Bounds of the model *)

\* largest number of candidate sections in a composed response text
MaxSections == 11
\* largest number of rejected sections mixed into a response
MaxOdd == 3
\* length up to which every sequence of section kinds is enumerated
MaxFree == 1
\* largest number of items in a list or dict handed to the sanitizers
MaxItems == 2
\* number of containers nested around such a value
MaxDepth == 1
\* largest magnitude of a finite number handed to the sanitizers
MaxNumber == 1
\* largest volume fulfilment and distance ratio of a scored row, in percent
MaxPercent == 250
\* largest number of events counted in a scored row
MaxEvents == 25
\* longest average trip duration of a scored route, in hours
MaxHours == 2
\* largest number of rows of a bucketed frame
MaxDrivers == 2
\* number of requests the process serves one after the other
MaxRequests == 2
\* number of db.get_engine() calls of one extractor thread
MaxCalls == 2

-----------------------------------------------------------------------------
(* Python str primitives *)

MinOf(S) == CHOOSE x \in S : \A y \in S : x <= y

\* str.isspace() characters that occur in the modelled texts
Whitespace == {" ", "\n", "\t", "\r"}

LowerTable ==
    [A |-> "a", B |-> "b", C |-> "c", D |-> "d", E |-> "e", F |-> "f",
     G |-> "g", H |-> "h", I |-> "i", J |-> "j", K |-> "k", L |-> "l",
     M |-> "m", N |-> "n", O |-> "o", P |-> "p", Q |-> "q", R |-> "r",
     S |-> "s", T |-> "t", U |-> "u", V |-> "v", W |-> "w", X |-> "x",
     Y |-> "y", Z |-> "z"]

LowerChar(c) == IF c \in DOMAIN LowerTable THEN LowerTable[c] ELSE c

\* s.lower()
RECURSIVE Lower(_)
Lower(s) ==
    IF s = <<>> THEN <<>>
    ELSE Append(Lower(SubSeq(s, 1, Len(s) - 1)), LowerChar(s[Len(s)]))

\* s[i:].startswith(p), 1-based
StartsAt(s, i, p) ==
    \/ p = <<>>
    \/ /\ i + Len(p) - 1 <= Len(s)
       /\ s[i] = p[1]
       /\ \A j \in 2..Len(p) : s[i + j - 1] = p[j]

\* p in s
Contains(s, p) == \E i \in 1..(Len(s) - Len(p) + 1) : StartsAt(s, i, p)

\* s.endswith(p)
EndsWith(s, p) == Len(s) >= Len(p) /\ StartsAt(s, Len(s) - Len(p) + 1, p)

\* index of the first and of the last character that is not white space
FirstInk(s) ==
    CHOOSE i \in 1..Len(s) :
        s[i] \notin Whitespace /\ \A k \in 1..(i - 1) : s[k] \in Whitespace
LastInk(s) ==
    CHOOSE i \in 1..Len(s) :
        s[i] \notin Whitespace /\ \A k \in (i + 1)..Len(s) : s[k] \in Whitespace

Blank(s) == \A i \in 1..Len(s) : s[i] \in Whitespace

\* s.strip()
Strip(s) == IF Blank(s) THEN <<>> ELSE SubSeq(s, FirstInk(s), LastInk(s))

\* s.rstrip()
RStrip(s) == IF Blank(s) THEN <<>> ELSE SubSeq(s, 1, LastInk(s))

\* s.find(sep, from): the first occurrence at or after `from`, 0 if none
Find(s, sep, from) ==
    LET last == Len(s) - Len(sep) + 1
    IN  IF \E i \in from..last : StartsAt(s, i, sep)
        THEN CHOOSE i \in from..last :
                 /\ StartsAt(s, i, sep)
                 /\ \A k \in from..(i - 1) : ~StartsAt(s, k, sep)
        ELSE 0

\* s.split(sep, maxsplit) scanning from position `from`; maxsplit < 0 is unlimited
RECURSIVE SplitFrom(_, _, _, _)
SplitFrom(s, sep, from, maxsplit) ==
    LET h == Find(s, sep, from)
    IN  IF maxsplit = 0 \/ h = 0
        THEN <<SubSeq(s, from, Len(s))>>
        ELSE <<SubSeq(s, from, h - 1)>>
                 \o SplitFrom(s, sep, h + Len(sep), maxsplit - 1)

\* s.split(sep)
Split(s, sep) == SplitFrom(s, sep, 1, -1)

\* s.split(sep, 1)
SplitOnce(s, sep) == SplitFrom(s, sep, 1, 1)

\* sep.join(parts)
RECURSIVE Join(_, _)
Join(parts, sep) ==
    IF parts = <<>> THEN <<>>
    ELSE IF Len(parts) = 1 THEN parts[1]
    ELSE parts[1] \o sep \o Join(Tail(parts), sep)

\* s.replace(old, new)
Replace(s, old, new) == Join(Split(s, old), new)

Last(seq) == seq[Len(seq)]

-----------------------------------------------------------------------------
(* String literals of insights_generator.py *)

Marker == <<"*","*","I","n","s","i","g","h","t">>
NL == <<"\n">>
Colon == <<":">>
Space == <<" ">>
Stars == <<"*", "*">>
Now == "now"

SafetyWords == <<<<"s","a","f","e","t","y">>, <<"r","i","s","k">>, <<"a","c","c","i","d","e","n","t">>, <<"s","p","e","e","d">>, <<"f","a","t","i","g","u","e">>,
      <<"c","o","m","p","l","i","a","n","c","e">>>>
OperationsWords == <<<<"d","e","l","i","v","e","r","y">>, <<"t","i","m","e">>, <<"e","f","f","i","c","i","e","n","c","y">>, <<"u","t","i","l","i","z","a","t","i","o","n">>,
      <<"c","o","s","t">>, <<"r","o","u","t","e">>>>
CombinedWords == <<<<"c","o","m","b","i","n","e","d">>, <<"o","v","e","r","a","l","l">>, <<"p","e","r","f","o","r","m","a","n","c","e">>, <<"c","o","m","p","o","s","i","t","e">>>>
HighWords == <<<<"c","r","i","t","i","c","a","l">>, <<"u","r","g","e","n","t">>, <<"i","m","m","e","d","i","a","t","e">>, <<"h","i","g","h"," ","r","i","s","k">>, <<"s","e","v","e","r","e">>>>
MediumWords == <<<<"i","m","p","o","r","t","a","n","t">>, <<"s","i","g","n","i","f","i","c","a","n","t">>, <<"m","o","d","e","r","a","t","e">>, <<"a","t","t","e","n","t","i","o","n">>>>

AnyWordIn(words, content) ==
    \E k \in 1..Len(words) : Contains(content, words[k])

\* _categorize_insight with the first two rules of the table exchanged
_categorize_insightOperationsFirst(content) ==
    LET content_lower == Lower(content)
    IN  IF AnyWordIn(OperationsWords, content_lower) THEN "operations"
        ELSE IF AnyWordIn(SafetyWords, content_lower) THEN "safety"
        ELSE IF AnyWordIn(CombinedWords, content_lower) THEN "combined"
        ELSE "general"

\* lines 392-403
_categorize_insight(content) ==
    LET content_lower == Lower(content)
    IN  IF AnyWordIn(SafetyWords, content_lower) THEN "safety"
        ELSE IF AnyWordIn(OperationsWords, content_lower) THEN "operations"
        ELSE IF AnyWordIn(CombinedWords, content_lower) THEN "combined"
        ELSE "general"

_determine_priority(description) ==
    LET description_lower == Lower(description)
    IN  IF AnyWordIn(HighWords, description_lower) THEN "high"
        ELSE IF AnyWordIn(MediumWords, description_lower) THEN "medium"
        ELSE "low"

Insight(id, title, description, category, priority) ==
    [id |-> id, title |-> title, description |-> description,
     category |-> category, priority |-> priority, timestamp |-> Now]

_generate_default_insights ==
    << Insight(1, <<"R","o","u","t","e"," ","O","p","t","i","m","i","z","a","t","i","o","n"," ","O","p","p","o",
      "r","t","u","n","i","t","y">>,
         <<"A","n","a","l","y","s","i","s"," ","o","f"," ","d","e","l","i","v","e","r","y"," ","r","o",
      "u","t","e","s"," ","s","h","o","w","s"," ","p","o","t","e","n","t","i","a","l"," ","f",
      "o","r"," ","1","5","-","2","0","%"," ","e","f","f","i","c","i","e","n","c","y"," ","i",
      "m","p","r","o","v","e","m","e","n","t"," ","t","h","r","o","u","g","h"," ","r","o","u",
      "t","e"," ","c","o","n","s","o","l","i","d","a","t","i","o","n"," ","a","n","d"," ","t",
      "i","m","e"," ","w","i","n","d","o","w"," ","o","p","t","i","m","i","z","a","t","i","o",
      "n","."," ","R","e","c","o","m","m","e","n","d"," ","i","m","p","l","e","m","e","n","t",
      "i","n","g"," ","d","y","n","a","m","i","c"," ","r","o","u","t","i","n","g"," ","a","l",
      "g","o","r","i","t","h","m","s",".">>,
         "operations", "high"),
       Insight(2, <<"D","r","i","v","e","r"," ","S","a","f","e","t","y"," ","P","e","r","f","o","r","m","a","n",
      "c","e"," ","R","e","v","i","e","w">>,
         <<"C","u","r","r","e","n","t"," ","s","a","f","e","t","y"," ","m","e","t","r","i","c","s"," ",
      "i","n","d","i","c","a","t","e"," ","n","e","e","d"," ","f","o","r"," ","e","n","h","a",
      "n","c","e","d"," ","d","r","i","v","e","r"," ","t","r","a","i","n","i","n","g"," ","p",
      "r","o","g","r","a","m","s","."," ","F","o","c","u","s"," ","o","n"," ","d","e","f","e",
      "n","s","i","v","e"," ","d","r","i","v","i","n","g"," ","t","e","c","h","n","i","q","u",
      "e","s"," ","a","n","d"," ","f","a","t","i","g","u","e"," ","m","a","n","a","g","e","m",
      "e","n","t"," ","t","o"," ","r","e","d","u","c","e"," ","i","n","c","i","d","e","n","t",
      " ","r","a","t","e","s"," ","b","y"," ","2","5","%",".">>,
         "safety", "high"),
       Insight(3, <<"F","u","e","l"," ","E","f","f","i","c","i","e","n","c","y"," ","E","n","h","a","n","c","e",
      "m","e","n","t">>,
         <<"V","e","h","i","c","l","e"," ","f","u","e","l"," ","c","o","n","s","u","m","p","t","i","o",
      "n"," ","p","a","t","t","e","r","n","s"," ","s","u","g","g","e","s","t"," ","i","m","p",
      "l","e","m","e","n","t","i","n","g"," ","e","c","o","-","d","r","i","v","i","n","g"," ",
      "t","r","a","i","n","i","n","g"," ","a","n","d"," ","r","e","g","u","l","a","r"," ","m",
      "a","i","n","t","e","n","a","n","c","e"," ","s","c","h","e","d","u","l","e","s"," ","c",
      "o","u","l","d"," ","r","e","d","u","c","e"," ","f","u","e","l"," ","c","o","s","t","s",
      " ","b","y"," ","1","2","-","1","8","%"," ","a","n","n","u","a","l","l","y",".">>,
         "operations", "medium"),
       Insight(4, <<"P","e","a","k"," ","H","o","u","r"," ","T","r","a","f","f","i","c"," ","M","a","n","a","g",
      "e","m","e","n","t">>,
         <<"D","e","l","i","v","e","r","y"," ","s","c","h","e","d","u","l","i","n","g"," ","d","u","r",
      "i","n","g"," ","o","f","f","-","p","e","a","k"," ","h","o","u","r","s"," ","c","o","u",
      "l","d"," ","i","m","p","r","o","v","e"," ","o","n","-","t","i","m","e"," ","p","e","r",
      "f","o","r","m","a","n","c","e"," ","b","y"," ","3","0","%"," ","a","n","d"," ","r","e",
      "d","u","c","e"," ","d","r","i","v","e","r"," ","s","t","r","e","s","s"," ","l","e","v",
      "e","l","s","."," ","C","o","n","s","i","d","e","r"," ","f","l","e","x","i","b","l","e",
      " ","d","e","l","i","v","e","r","y"," ","w","i","n","d","o","w","s",".">>,
         "combined", "medium"),
       Insight(5, <<"V","e","h","i","c","l","e"," ","M","a","i","n","t","e","n","a","n","c","e"," ","O","p","t",
      "i","m","i","z","a","t","i","o","n">>,
         <<"P","r","e","d","i","c","t","i","v","e"," ","m","a","i","n","t","e","n","a","n","c","e"," ",
      "s","c","h","e","d","u","l","i","n","g"," ","b","a","s","e","d"," ","o","n"," ","u","s",
      "a","g","e"," ","p","a","t","t","e","r","n","s"," ","c","o","u","l","d"," ","r","e","d",
      "u","c","e"," ","u","n","e","x","p","e","c","t","e","d"," ","b","r","e","a","k","d","o",
      "w","n","s"," ","b","y"," ","4","0","%"," ","a","n","d"," ","e","x","t","e","n","d"," ",
      "v","e","h","i","c","l","e"," ","l","i","f","e","s","p","a","n"," ","b","y"," ","2","-",
      "3"," ","y","e","a","r","s",".">>,
         "operations", "medium"),
       Insight(6, <<"D","r","i","v","e","r"," ","F","a","t","i","g","u","e"," ","M","o","n","i","t","o","r","i",
      "n","g">>,
         <<"I","m","p","l","e","m","e","n","t","i","n","g"," ","f","a","t","i","g","u","e"," ","d","e",
      "t","e","c","t","i","o","n"," ","s","y","s","t","e","m","s"," ","a","n","d"," ","m","a",
      "n","d","a","t","o","r","y"," ","r","e","s","t"," ","p","e","r","i","o","d","s"," ","c",
      "o","u","l","d"," ","r","e","d","u","c","e"," ","f","a","t","i","g","u","e","-","r","e",
      "l","a","t","e","d"," ","i","n","c","i","d","e","n","t","s"," ","b","y"," ","5","0","%",
      " ","a","n","d"," ","i","m","p","r","o","v","e"," ","o","v","e","r","a","l","l"," ","d",
      "r","i","v","e","r"," ","w","e","l","l","b","e","i","n","g",".">>,
         "safety", "high"),
       Insight(7, <<"C","u","s","t","o","m","e","r"," ","C","o","m","m","u","n","i","c","a","t","i","o","n"," ",
      "E","n","h","a","n","c","e","m","e","n","t">>,
         <<"R","e","a","l","-","t","i","m","e"," ","d","e","l","i","v","e","r","y"," ","t","r","a","c",
      "k","i","n","g"," ","a","n","d"," ","p","r","o","a","c","t","i","v","e"," ","c","u","s",
      "t","o","m","e","r"," ","n","o","t","i","f","i","c","a","t","i","o","n","s"," ","c","o",
      "u","l","d"," ","i","m","p","r","o","v","e"," ","c","u","s","t","o","m","e","r"," ","s",
      "a","t","i","s","f","a","c","t","i","o","n"," ","s","c","o","r","e","s"," ","b","y"," ",
      "2","5","%"," ","a","n","d"," ","r","e","d","u","c","e"," ","s","u","p","p","o","r","t",
      " ","c","a","l","l","s"," ","b","y"," ","3","5","%",".">>,
         "operations", "low"),
       Insight(8, <<"W","e","a","t","h","e","r"," ","I","m","p","a","c","t"," ","M","i","t","i","g","a","t","i",
      "o","n">>,
         <<"W","e","a","t","h","e","r","-","b","a","s","e","d"," ","r","o","u","t","e"," ","a","d","j",
      "u","s","t","m","e","n","t","s"," ","a","n","d"," ","s","a","f","e","t","y"," ","p","r",
      "o","t","o","c","o","l","s"," ","c","o","u","l","d"," ","r","e","d","u","c","e"," ","w",
      "e","a","t","h","e","r","-","r","e","l","a","t","e","d"," ","d","e","l","a","y","s"," ",
      "b","y"," ","4","5","%"," ","a","n","d"," ","i","m","p","r","o","v","e"," ","d","r","i",
      "v","e","r"," ","s","a","f","e","t","y"," ","d","u","r","i","n","g"," ","a","d","v","e",
      "r","s","e"," ","c","o","n","d","i","t","i","o","n","s",".">>,
         "combined", "medium") >>

-----------------------------------------------------------------------------
(* _parse_ai_insights *)

\* the length a description must exceed (line 344)
MinDescriptionLength == 25
\* the list length below which defaults are appended (line 374)
PadThreshold == 8
\* the list length at which appending defaults stops (line 380)
PadStop == 10
\* the slice bound of the returned list (line 386)
ReturnCap == 10

\* is_valid without the check of line 347
is_validIgnoringSee(description) ==
    /\ description # <<>>
    /\ Len(description) > MinDescriptionLength
    /\ ~EndsWith(description, <<"(">>)
    /\ ~EndsWith(description, <<" ","a","l","s","o">>)
    /\ ~EndsWith(description, <<" ","a","n","d">>)
    /\ ~EndsWith(description, <<" ","b","u","t">>)
    /\ ~EndsWith(description, <<" ","a","t"," ">>)
    /\ ~EndsWith(RStrip(description), <<" ","a","t">>)
    /\ ~Contains(Lower(description), <<"f","u","r","t","h","e","r"," ","d","a","t","a"," ","a","n","a","l","y","s","i","s">>)
    /\ ~Contains(Lower(description), <<"a","d","d","i","t","i","o","n","a","l"," ","a","n","a","l","y","s","i","s">>)

\* is_valid with >= for the > of line 344
is_validAtLeast(description) ==
    /\ description # <<>>
    /\ Len(description) >= MinDescriptionLength
    /\ ~EndsWith(description, <<"(">>)
    /\ ~EndsWith(description, <<" ","a","l","s","o">>)
    /\ ~EndsWith(description, <<" ","s","e","e">>)
    /\ ~EndsWith(description, <<" ","a","n","d">>)
    /\ ~EndsWith(description, <<" ","b","u","t">>)
    /\ ~EndsWith(description, <<" ","a","t"," ">>)
    /\ ~EndsWith(RStrip(description), <<" ","a","t">>)
    /\ ~Contains(Lower(description), <<"f","u","r","t","h","e","r"," ","d","a","t","a"," ","a","n","a","l","y","s","i","s">>)
    /\ ~Contains(Lower(description), <<"a","d","d","i","t","i","o","n","a","l"," ","a","n","a","l","y","s","i","s">>)

\* lines 344-353
is_valid(description) ==
    /\ description # <<>>
    /\ Len(description) > MinDescriptionLength
    /\ ~EndsWith(description, <<"(">>)
    /\ ~EndsWith(description, <<" ","a","l","s","o">>)
    /\ ~EndsWith(description, <<" ","s","e","e">>)
    /\ ~EndsWith(description, <<" ","a","n","d">>)
    /\ ~EndsWith(description, <<" ","b","u","t">>)
    /\ ~EndsWith(description, <<" ","a","t"," ">>)
    /\ ~EndsWith(RStrip(description), <<" ","a","t">>)
    /\ ~Contains(Lower(description), <<"f","u","r","t","h","e","r"," ","d","a","t","a"," ","a","n","a","l","y","s","i","s">>)
    /\ ~Contains(Lower(description), <<"a","d","d","i","t","i","o","n","a","l"," ","a","n","a","l","y","s","i","s">>)

\* the title taken from the other side of the first colon
TitleBeforeColon(title_line) ==
    Replace(Strip(SplitOnce(title_line, Colon)[1]), Stars, <<>>)

\* lines 337: the title of a section's first line
TitleOf(title_line) ==
    Replace(Strip(Last(SplitOnce(title_line, Colon))), Stars, <<>>)

\* line 340: the description of a section's lines
DescriptionOf(lines) == Strip(Join(Tail(lines), NL))

\* lines 331-366: the loop body for one section
ParseSection(acc, section) ==
    IF Strip(section) = <<>> THEN acc
    ELSE LET lines == Split(Strip(section), NL)
             title == TitleOf(lines[1])
             description == DescriptionOf(lines)
         IN  IF is_valid(description)
             THEN Append(acc,
                    Insight(Len(acc) + 1, title, description,
                            _categorize_insight(title \o Space \o description),
                            _determine_priority(description)))
             ELSE acc

\* lines 330-371: the loop over insight_sections[1:]
RECURSIVE ParseSections(_, _, _)
ParseSections(acc, insight_sections, i) ==
    IF i > Len(insight_sections) THEN acc
    ELSE ParseSections(ParseSection(acc, insight_sections[i]),
                       insight_sections, i + 1)

\* RenumberDefault without the assignment of line 383
RenumberDefaultKeepsId(default_insight, acc) == default_insight

\* line 383: a default insight's id continues the sequence
RenumberDefault(default_insight, acc) ==
    [default_insight EXCEPT !.id = Len(acc) + 1]

\* lines 379-384: the loop over default_insights
RECURSIVE AppendDefaults(_, _, _)
AppendDefaults(acc, default_insights, j) ==
    IF j > Len(default_insights) \/ Len(acc) >= PadStop THEN acc
    ELSE AppendDefaults(
             Append(acc, RenumberDefault(default_insights[j], acc)),
             default_insights, j + 1)

\* PadWithDefaults with <= for the < of line 374
PadWithDefaultsAtThreshold(acc) ==
    IF Len(acc) <= PadThreshold
    THEN AppendDefaults(acc, _generate_default_insights, 1)
    ELSE acc

\* lines 373-384
PadWithDefaults(acc) ==
    IF Len(acc) < PadThreshold
    THEN AppendDefaults(acc, _generate_default_insights, 1)
    ELSE acc

\* Truncate without the slice of line 386
TruncateKeepsAll(acc) == acc

\* line 386: insights[:10]
Truncate(acc) ==
    IF Len(acc) > ReturnCap THEN SubSeq(acc, 1, ReturnCap) ELSE acc

\* lines 314-390; a None response makes ai_response.split raise, and the
\* handler of line 388 returns the default library
_parse_ai_insights(ai_response) ==
    IF ai_response.none
    THEN _generate_default_insights
    ELSE LET insight_sections == Split(ai_response.chars, Marker)
         IN  Truncate(PadWithDefaults(
                 ParseSections(<<>>, insight_sections, 2)))

-----------------------------------------------------------------------------
(* Response texts the external text collaborator may return *)

IdxChars == <<"a","b","c","d","e","f","g","h","i","j","k","l","m","n","o","p">>

\* descriptions of candidate sections
DescPool ==
    << <<"C","u","t"," ","i","d","l","e"," ","t","i","m","e"," ","b","y"," ","1","2"," ","p","c","t",
      "!","!","!">>,
       <<"C","u","t"," ","i","d","l","e"," ","t","i","m","e"," ","b","y"," ","1","2"," ","p","c","t",
      "!","!">>,
       <<"T","o","o"," ","s","h","o","r","t",".">>,
       <<>>,
       <<"R","e","v","i","e","w"," ","a","l","l"," ","d","e","p","o","t","s"," ","i","n"," ","t","h",
      "e"," ","n","o","r","t","h"," ","(">>,
       <<"D","r","i","v","e","r","s"," ","i","n"," ","t","h","e"," ","n","o","r","t","h"," ","r","e",
      "g","i","o","n"," ","a","l","s","o">>,
       <<"F","o","r"," ","t","h","e"," ","d","e","t","a","i","l","e","d"," ","f","i","g","u","r","e",
      "s"," ","p","l","e","a","s","e"," ","s","e","e">>,
       <<"I","m","p","r","o","v","e"," ","t","h","e"," ","l","o","a","d","i","n","g"," ","b","a","y",
      "s"," ","q","u","i","c","k","l","y"," ","a","n","d">>,
       <<"U","t","i","l","i","z","a","t","i","o","n"," ","i","s"," ","r","i","s","i","n","g"," ","s",
      "t","e","a","d","i","l","y"," ","b","u","t">>,
       <<"M","o","s","t"," ","o","f"," ","t","h","e"," ","d","e","l","a","y","s"," ","a","r","e"," ",
      "o","b","s","e","r","v","e","d"," ","a","t">>,
       <<"R","e","q","u","i","r","e","s"," ","F","u","r","t","h","e","r"," ","D","a","t","a"," ","A",
      "n","a","l","y","s","i","s"," ","b","e","f","o","r","e"," ","a","c","t","i","n","g",".">>,
       <<"A","n"," ","A","D","D","I","T","I","O","N","A","L"," ","A","N","A","L","Y","S","I","S"," ",
      "o","f"," ","d","e","p","o","t","s"," ","i","s"," ","r","e","q","u","i","r","e","d",".">>,
       <<"S","u","p","e","r","v","i","s","o","r","s"," ","s","h","o","u","l","d"," ","a","l","w","a",
      "y","s"," ","o","v","e","r","s","e","e">>,
       <<"C","r","i","t","i","c","a","l",":"," ","s","e","v","e","r","e"," ","s","p","e","e","d"," ",
      "e","v","e","n","t","s",".","\n","A","c","t"," ","n","o","w"," ","o","n"," ","t","h","e",
      " ","n","o","r","t","h"," ","r","o","u","t","e",".">>,
       <<"O","v","e","r","a","l","l"," ","p","e","r","f","o","r","m","a","n","c","e"," ","n","e","e",
      "d","s"," ","s","i","g","n","i","f","i","c","a","n","t"," ","a","t","t","e","n","t","i",
      "o","n",".">>,
       <<"I","m","p","o","r","t","a","n","t",":"," ","u","r","g","e","n","t"," ","c","o","m","p","o",
      "s","i","t","e"," ","r","e","v","i","e","w"," ","o","f"," ","d","e","p","o","t","s",".">> >>

\* kind 0 is a section of white space only
Kinds == 0..Len(DescPool)

\* the kinds whose description passes the validation of lines 344-353, and
\* the others, in the order the composed responses cycle through them
AcceptedKinds == <<1, 13, 14, 15, 16>>
RejectedKinds == <<7, 2, 3, 5, 0, 6, 8, 4, 9, 10, 11, 12>>

KindAt(i, rejected) ==
    IF rejected THEN RejectedKinds[((i - 1) % Len(RejectedKinds)) + 1]
    ELSE AcceptedKinds[((i - 1) % Len(AcceptedKinds)) + 1]

Preamble == <<"H","e","r","e"," ","a","r","e"," ","t","h","e"," ","i","n","s","i","g","h","t","s",":","\n",
      "\n">>

\* the kinds whose title carries a colon of its own
ColonTitleKinds == {14}

\* the title of section i
TitleText(i, kind) ==
    IF kind \in ColonTitleKinds THEN <<"T", IdxChars[i], ":", "x">>
    ELSE <<"T", IdxChars[i]>>

SectionText(i, kind) ==
    IF kind = 0 THEN <<" ", "\n">>
    ELSE <<" ", IdxChars[i], ":", " ">> \o TitleText(i, kind)
             \o <<"*", "*", "\n">> \o DescPool[kind] \o <<"\n", "\n">>

RECURSIVE Compose(_, _)
Compose(kinds, i) ==
    IF i > Len(kinds) THEN <<>>
    ELSE Marker \o SectionText(i, kinds[i]) \o Compose(kinds, i + 1)

TextOf(kinds) == [none |-> FALSE, chars |-> Preamble \o Compose(kinds, 1)]
NoneText == [none |-> TRUE, chars |-> <<>>]
EmptyText == [none |-> FALSE, chars |-> <<>>]

\* responses of up to MaxSections sections, up to MaxOdd of them rejected
LongKinds ==
    UNION { { [i \in 1..n |-> KindAt(i, i \in S)] :
                S \in {T \in SUBSET (1..n) : Cardinality(T) <= MaxOdd} } :
            n \in 0..MaxSections }

\* short responses: every sequence of kinds
FreeKinds == UNION { [1..n -> Kinds] : n \in 1..MaxFree }

ParseInputs == LongKinds \cup FreeKinds

-----------------------------------------------------------------------------
(* Python values of the KPI documents, tagged with their type *)

PyFloat(v) == [type |-> "float", kind |-> "finite", v |-> v]
NaN == [type |-> "float", kind |-> "nan", v |-> 0]
PosInf == [type |-> "float", kind |-> "inf", v |-> 0]
NegInf == [type |-> "float", kind |-> "-inf", v |-> 0]
PyInt(v) == [type |-> "int", v |-> v]
PyStr(text) == [type |-> "str", text |-> text]
PyBool(truth) == [type |-> "bool", truth |-> truth]
PyNone == [type |-> "none"]
\* a dict maps its keys to values, a list is a sequence of values
PyDict(items) == [type |-> "dict", items |-> items]
PyList(items) == [type |-> "list", items |-> items]
\* values of no built-in type: a pandas Series (has to_dict), a numpy array
\* or scalar (has tolist), an object with neither (Timestamp, Decimal) and
\* an object whose to_dict raises
Series(items) == [type |-> "object", has |-> "to_dict", payload |-> PyDict(items)]
NdArray(items) == [type |-> "object", has |-> "tolist", payload |-> PyList(items)]
Opaque(text) == [type |-> "object", has |-> "neither", payload |-> PyStr(text)]
Broken(text) == [type |-> "object", has |-> "raises", payload |-> PyStr(text)]

IsFloat(value) == value.type = "float"
Finite(value) == IsFloat(value) => value.kind = "finite"

\* the defaults of the signatures of safe_float and safe_int
DefaultFloat == PyFloat(0)
DefaultInt == PyInt(0)

\* float(value) and int(value) of a number; the model's floats are whole
Number(value) ==
    CASE value.type = "bool" -> IF value.truth THEN 1 ELSE 0
      [] OTHER -> value.v

\* pd.isna, math.isinf and math.isnan accept value without raising
Numeric(value) == value.type \in {"float", "int", "bool"}

\* safe_float without the isinf test
safe_floatKeepsInfinity(value, default) ==
    IF value.type = "none" THEN default
    ELSE IF ~Numeric(value) THEN default
    ELSE IF IsFloat(value) /\ value.kind = "nan" THEN default
    ELSE IF IsFloat(value) /\ value.kind # "finite" THEN value
    ELSE PyFloat(Number(value))

\* safe_float scaling the finite values it converts
safe_floatScaling(value, default) ==
    IF value.type = "none" THEN default
    ELSE IF ~Numeric(value) THEN default
    ELSE IF ~Finite(value) THEN default
    ELSE PyFloat(2 * Number(value) + 1)

\* lines 36-46: pd.isna(None) is true; a str, dict, list or object makes
\* math.isinf raise TypeError (or the truth test raise ValueError)
safe_float(value, default) ==
    IF value.type = "none" THEN default
    ELSE IF ~Numeric(value) THEN default
    ELSE IF ~Finite(value) THEN default
    ELSE PyFloat(Number(value))

\* lines 48-58
safe_int(value, default) ==
    IF value.type = "none" THEN default
    ELSE IF ~Numeric(value) THEN default
    ELSE IF ~Finite(value) THEN default
    ELSE PyInt(Number(value))

\* lines 74-83: what the last branch of clean_data_for_json passes on
Unwrap(data) ==
    CASE data.has = "to_dict" -> data.payload
      [] data.has = "tolist" -> data.payload
      [] data.has = "neither" -> data.payload
      [] data.has = "raises" -> data.payload

\* lines 60-83
RECURSIVE clean_data_for_json(_)
clean_data_for_json(data) ==
    CASE data.type = "dict" ->
            PyDict([key \in DOMAIN data.items |->
                        clean_data_for_json(data.items[key])])
      [] data.type = "list" ->
            PyList([i \in 1..Len(data.items) |->
                        clean_data_for_json(data.items[i])])
      [] data.type = "float" -> safe_float(data, DefaultFloat)
      [] data.type \in {"int", "str", "bool", "none"} -> data
      [] data.type = "object" ->
            IF data.has \in {"to_dict", "tolist"}
            THEN clean_data_for_json(Unwrap(data))
            ELSE Unwrap(data)

\* a NaN or an infinity at some depth of data
RECURSIVE NonFinite(_)
NonFinite(data) ==
    CASE data.type = "float" -> data.kind # "finite"
      [] data.type = "dict" ->
            \E key \in DOMAIN data.items : NonFinite(data.items[key])
      [] data.type = "list" ->
            \E i \in 1..Len(data.items) : NonFinite(data.items[i])
      [] data.type = "object" -> NonFinite(data.payload)
      [] OTHER -> FALSE

-----------------------------------------------------------------------------
(* Category documents of the three extractors *)

Extractors == <<"operations", "safety", "combined">>
ExtractorSet == {Extractors[i] : i \in 1..Len(Extractors)}

StampKeys == {"extraction_timestamp", "date_range"}

OperationsRoster ==
    {"turnaround_time", "trip_count_per_vehicle", "distance_variance",
     "vehicle_utilization", "on_time_arrival", "trip_delays",
     "transporter_performance", "missed_deliveries", "geo_deviation_events",
     "loading_unloading_time", "delivery_volume_variance",
     "maintenance_downtime"}

SafetyRoster ==
    {"driving_safety_score", "phone_usage_rate", "overspeeding_events",
     "harsh_driving_events", "rest_time_compliance", "high_risk_trips",
     "incident_heatmaps", "repeat_offenders", "checklist_compliance",
     "accident_near_miss_flags", "fatigue_scoring"}

CombinedRoster ==
    {"safe_on_time_delivery_rate", "driver_risk_vs_tat_heatmap",
     "top_routes_by_risk_weighted_efficiency", "rr_eligible_trips",
     "driver_engagement_index", "transporter_composite_score",
     "fatigue_risk_by_route_and_time"}

Roster(e) ==
    CASE e = "operations" -> OperationsRoster
      [] e = "safety" -> SafetyRoster
      [] e = "combined" -> CombinedRoster

\* the document an _extract_*_kpis_sync wrapper returns when the call raises
ErrorDoc == [error |-> "message"]

NoDoc == [pending |-> TRUE]

\* lines 177-179: the keys of a document other than the two stamps
KpiCount(doc) == Cardinality(DOMAIN doc \ StampKeys)

-----------------------------------------------------------------------------
(* The data source and the metric methods of the three extractors *)

AllKeys == OperationsRoster \cup SafetyRoster \cup CombinedRoster

\* what the query of a metric method meets: rows carrying the number n,
\* an empty result set, or a failing data-source call
Rows(n) == [kind |-> "rows", n |-> n]
EmptyResult == [kind |-> "empty", n |-> PyNone]
Fails == [kind |-> "fails", n |-> PyNone]

\* the returns of the `if df.empty` branches (for incident_heatmaps, which
\* has no such branch, the return of lines 639-647 on two empty frames)
EmptyShape(key) ==
    CASE key = "turnaround_time" ->
            PyDict([overall_avg_tat_hours |-> PyInt(0),
                    by_location_type |-> PyDict(<<>>),
                    top_bottleneck_locations |-> PyList(<<>>)])
      [] key = "trip_count_per_vehicle" ->
            PyDict([avg_trips_per_vehicle_per_day |-> PyInt(0),
                    vehicle_performance |-> PyList(<<>>)])
      [] key = "distance_variance" ->
            PyDict([avg_distance_variance_pct |-> PyInt(0),
                    analysis |-> PyDict(<<>>)])
      [] key = "vehicle_utilization" ->
            PyDict([avg_utilization_pct |-> PyInt(0),
                    vehicle_utilization |-> PyList(<<>>)])
      [] key = "on_time_arrival" ->
            PyDict([on_time_rate_pct |-> PyInt(0),
                    performance_analysis |-> PyDict(<<>>)])
      [] key = "trip_delays" ->
            PyDict([departure_delay_pct |-> PyInt(0),
                    arrival_delay_pct |-> PyInt(0)])
      [] key = "transporter_performance" ->
            PyDict([transporter_performance |-> PyList(<<>>)])
      [] key = "missed_deliveries" ->
            PyDict([missed_delivery_rate_pct |-> PyInt(0),
                    missed_deliveries |-> PyList(<<>>)])
      [] key = "geo_deviation_events" ->
            PyDict([geo_deviation_events |-> PyInt(0),
                    events |-> PyList(<<>>)])
      [] key = "loading_unloading_time" ->
            PyDict([avg_loading_time_min |-> PyInt(0),
                    avg_unloading_time_min |-> PyInt(0)])
      [] key = "delivery_volume_variance" ->
            PyDict([avg_fulfillment_pct |-> PyInt(0),
                    volume_analysis |-> PyDict(<<>>)])
      [] key = "maintenance_downtime" ->
            PyDict([avg_maintenance_downtime_hrs_per_month |-> PyInt(0),
                    maintenance_details |-> PyList(<<>>)])
      [] key = "driving_safety_score" ->
            PyDict([overall_avg_safety_score |-> PyInt(0),
                    driver_safety_scores |-> PyList(<<>>),
                    safety_distribution |-> PyDict(<<>>)])
      [] key = "phone_usage_rate" ->
            PyDict([phone_usage_incidence_rate |-> PyInt(0),
                    analysis |-> PyDict(<<>>)])
      [] key = "overspeeding_events" ->
            PyDict([overspeeding_events_per_100km |-> PyInt(0),
                    analysis |-> PyDict(<<>>)])
      [] key = "harsh_driving_events" ->
            PyDict([harsh_events_per_trip |-> PyInt(0),
                    analysis |-> PyDict(<<>>)])
      [] key = "rest_time_compliance" ->
            PyDict([rest_time_compliance_rate |-> PyInt(100),
                    analysis |-> PyDict(<<>>)])
      [] key = "high_risk_trips" ->
            PyDict([high_risk_trip_percentage |-> PyInt(0),
                    analysis |-> PyDict(<<>>)])
      [] key = "incident_heatmaps" ->
            PyDict([total_incidents_with_location |-> PyInt(0),
                    total_events_with_location |-> PyInt(0),
                    incident_hotspots |-> PyList(<<>>),
                    event_hotspots |-> PyList(<<>>),
                    geographic_clusters |-> PyDict(<<>>),
                    incident_type_distribution |-> PyDict(<<>>),
                    severity_distribution |-> PyDict(<<>>)])
      [] key = "repeat_offenders" ->
            PyDict([repeat_offenders_count |-> PyInt(0),
                    analysis |-> PyDict(<<>>)])
      [] key = "checklist_compliance" ->
            PyDict([overall_compliance_rate |-> PyInt(0),
                    analysis |-> PyDict(<<>>)])
      [] key = "accident_near_miss_flags" ->
            PyDict([total_incidents |-> PyInt(0), analysis |-> PyDict(<<>>)])
      [] key = "fatigue_scoring" ->
            PyDict([avg_fatigue_score |-> PyInt(0),
                    analysis |-> PyDict(<<>>)])
      [] key = "safe_on_time_delivery_rate" ->
            PyDict([safe_on_time_delivery_rate |-> PyInt(0),
                    total_trips |-> PyInt(0), safe_trips |-> PyInt(0),
                    on_time_trips |-> PyInt(0),
                    safe_on_time_trips |-> PyInt(0)])
      [] key = "driver_risk_vs_tat_heatmap" ->
            PyDict([correlation_analysis |-> PyDict(<<>>),
                    heatmap_data |-> PyList(<<>>)])
      [] key = "top_routes_by_risk_weighted_efficiency" ->
            PyDict([top_routes |-> PyList(<<>>), analysis |-> PyDict(<<>>)])
      [] key = "rr_eligible_trips" ->
            PyDict([rr_eligibility_rate |-> PyInt(0),
                    analysis |-> PyDict(<<>>)])
      [] key = "driver_engagement_index" ->
            PyDict([avg_engagement_score |-> PyInt(0),
                    analysis |-> PyDict(<<>>)])
      [] key = "transporter_composite_score" ->
            PyDict([avg_composite_score |-> PyInt(0),
                    analysis |-> PyDict(<<>>)])
      [] key = "fatigue_risk_by_route_and_time" ->
            PyDict([fatigue_risk_analysis |-> PyDict(<<>>),
                    heatmap_data |-> PyList(<<>>)])

\* a field of the populated return: the heads carry the number of the rows,
\* the lists a record of it and the dicts a group of it
Populate(field, n) ==
    CASE field.type = "int" -> n
      [] field.type = "list" -> PyList(<<PyDict([name |-> PyStr("row"), value |-> n])>>)
      [] field.type = "dict" -> PyDict([group |-> n])

\* the return of a metric method on a non-empty frame, reduced to the
\* fields of its empty return
RowsShape(key, n) ==
    PyDict([f \in DOMAIN EmptyShape(key).items |->
                Populate(EmptyShape(key).items[f], n)])

\* a metric method without its try/except: the failure leaves the method
get_kpiUnguarded(key, outcome) ==
    CASE outcome.kind = "fails" -> [exception |-> "message"]
      [] outcome.kind = "empty" -> EmptyShape(key)
      [] outcome.kind = "rows" -> RowsShape(key, outcome.n)

\* a metric method answering an empty result with an error document
get_kpiErrorOnEmpty(key, outcome) ==
    CASE outcome.kind = "fails" -> PyDict([error |-> PyStr("message")])
      [] outcome.kind = "empty" -> PyDict([error |-> PyStr("no data")])
      [] outcome.kind = "rows" -> RowsShape(key, outcome.n)

\* the get_*_kpi methods: the query and what follows it run inside
\* try/except Exception, which returns {'error': str(e)}
get_kpi(key, outcome) ==
    CASE outcome.kind = "fails" -> PyDict([error |-> PyStr("message")])
      [] outcome.kind = "empty" -> EmptyShape(key)
      [] outcome.kind = "rows" -> RowsShape(key, outcome.n)

\* datetime.now().isoformat() read at the n-th moment of the request
Stamps == <<"t0", "t1", "t2">>

\* the kpis dict of extract_all_kpis before it is cleaned
kpis(e, db, stamp) ==
    [key \in Roster(e) \cup StampKeys |->
        CASE key = "extraction_timestamp" -> PyStr(stamp)
          [] key = "date_range" ->
                PyDict([start |-> PyStr("start_date"), end |-> PyStr("end_date")])
          [] OTHER -> get_kpi(key, db[key])]

\* a metric method raised while the dict was built
Escapes(e, db) ==
    \E key \in Roster(e) : "exception" \in DOMAIN get_kpi(key, db[key])

\* extract_all_kpis with metric values that depend on the moment of the call
extract_all_kpisTimeDependent(e, db, stamp) ==
    IF Escapes(e, db) THEN [exception |-> "message"]
    ELSE [key \in Roster(e) \cup StampKeys |-> PyStr(stamp)]

\* extract_all_kpis: the dict is built key by key and cleaned; the result
\* is the Python dict, keyed by the roster and the two stamps
extract_all_kpis(e, db, stamp) ==
    IF Escapes(e, db) THEN [exception |-> "message"]
    ELSE clean_data_for_json(PyDict(kpis(e, db, stamp))).items

\* the data sources the requests are served from
Populated(n) == [key \in AllKeys |-> Rows(n)]
AllEmpty == [key \in AllKeys |-> EmptyResult]
FailingAt(key, db) == [db EXCEPT ![key] = Fails]

Databases ==
    {Populated(PyFloat(42)), Populated(NaN), Populated(NegInf), AllEmpty}
      \cup {FailingAt(key, Populated(PyFloat(42))) : key \in AllKeys}

\* the data sources of the modelled requests
RequestDatabases ==
    {Populated(PyFloat(42)), AllEmpty,
     FailingAt("trip_delays", Populated(PyFloat(42)))}

-----------------------------------------------------------------------------
(* Results of generate_insights *)

NoResult == [pending |-> TRUE]

\* an exception that leaves generate_insights
Raised(e) == [exception |-> e]

\* lines 97-102 and 144-149
FailureDoc(e) ==
    [success |-> FALSE, error |-> e, insights |-> <<>>,
     generation_timestamp |-> Now]

\* lines 142-149: the handler of generate_insights_async
AsyncExcept(e) == FailureDoc(e)

\* SequentialExcept re-raising instead of returning the failure document
SequentialExceptReraises(e) == Raised(e)

\* lines 95-102: the handler of _generate_insights_sequential
SequentialExcept(e) == FailureDoc(e)

\* _generate_fallback_insights giving up instead of using the library
_generate_fallback_insightsGivesUp == FailureDoc("AI service unavailable")

\* lines 416-428
_generate_fallback_insights ==
    [success |-> TRUE,
     insights |-> _generate_default_insights,
     generation_timestamp |-> Now,
     fallback_mode |-> TRUE,
     message |-> "Insights generated using fallback analysis due to AI service unavailability"]

\* lines 171-186
ProcessedResult(parsed, operations_data, safety_data, combined_data) ==
    [success |-> TRUE,
     insights |-> parsed,
     generation_timestamp |-> Now,
     date_range |-> [start |-> "start_date", end |-> "end_date"],
     data_sources |-> [operations_kpis |-> KpiCount(operations_data),
                       safety_kpis |-> KpiCount(safety_data),
                       combined_kpis |-> KpiCount(combined_data)],
     ai_metadata |-> [model |-> "model", tokens_used |-> 0, timestamp |-> Now]]

\* main.py lines 426-457: the answer of GET /api/ai-insights to a result
EndpointAnswer(insights_result) ==
    IF "exception" \in DOMAIN insights_result
    THEN [status |-> 500, detail |-> insights_result.exception]
    ELSE IF ~insights_result.success
    THEN [status |-> 500, detail |-> insights_result.error]
    ELSE IF {"date_range", "data_sources", "ai_metadata"}
                \subseteq DOMAIN insights_result
    THEN [status |-> 200,
          success |-> insights_result.success,
          insights |-> insights_result.insights,
          generation_timestamp |-> insights_result.generation_timestamp,
          date_range |-> insights_result.date_range,
          data_sources |-> insights_result.data_sources,
          ai_metadata |-> insights_result.ai_metadata,
          fallback_mode |-> IF "fallback_mode" \in DOMAIN insights_result
                            THEN insights_result.fallback_mode ELSE FALSE]
    ELSE [status |-> 500, detail |-> "KeyError"]

NoHttp == [status |-> 0]

-----------------------------------------------------------------------------
(* Responses of the text collaborator within a request *)

RequestKinds ==
    { <<>>,
      [i \in 1..3 |-> KindAt(i, FALSE)],
      [i \in 1..9 |-> KindAt(i, i = 4)] }

RequestTexts == {TextOf(kinds) : kinds \in RequestKinds} \cup {NoneText}

KindsOf(text) ==
    IF \E kinds \in RequestKinds : TextOf(kinds) = text
    THEN CHOOSE kinds \in RequestKinds : TextOf(kinds) = text
    ELSE <<>>

-----------------------------------------------------------------------------
(* The context handed to the collaborator and the state of the AI client *)

\* lines 210-249: the metrics a headline line is written for
HeadlineMetrics(e) ==
    CASE e = "operations" ->
            {"turnaround_time", "on_time_arrival", "vehicle_utilization"}
      [] e = "safety" ->
            {"driving_safety_score", "overspeeding_events", "high_risk_trips"}
      [] e = "combined" ->
            {"safe_on_time_delivery_rate", "driver_performance_index"}

\* lines 212-249: the key the headline line of a metric reads
HeadlineKeys ==
    [turnaround_time |-> "overall_avg_tat_hours",
     on_time_arrival |-> "overall_on_time_rate",
     vehicle_utilization |-> "overall_utilization_rate",
     driving_safety_score |-> "overall_avg_safety_score",
     overspeeding_events |-> "events_per_100km",
     high_risk_trips |-> "high_risk_percentage",
     safe_on_time_delivery_rate |-> "safe_on_time_rate",
     driver_performance_index |-> "overall_avg_performance_index"]

NotAvailable == PyStr("N/A")

\* dict.get(key, default) on a metric document
Get(document, key, default) ==
    IF key \in DOMAIN document.items THEN document.items[key] ELSE default

\* lines 203-249: per metric with a headline line, the value the line shows.
\* A category document that is empty or lacks the metric has no line. (Lines
\* 251-255 append the three documents themselves.)
_prepare_kpi_context(operations_data, safety_data, combined_data) ==
    LET data == [operations |-> operations_data, safety |-> safety_data,
                 combined |-> combined_data]
        shown == UNION { HeadlineMetrics(e) \cap DOMAIN data[e] :
                         e \in ExtractorSet }
        of(metric) == CHOOSE e \in ExtractorSet :
                          metric \in HeadlineMetrics(e) \cap DOMAIN data[e]
    IN  [metric \in shown |->
            Get(data[of(metric)][metric], HeadlineKeys[metric], NotAvailable)]

\* azure_openai_client.py line 224: the messages of the history sent along
HistoryWindow == 10
\* azure_openai_client.py line 246: the length the history is cut back to
HistoryCap == 20

\* seq[-n:]
LastN(seq, n) ==
    IF Len(seq) <= n THEN seq ELSE SubSeq(seq, Len(seq) - n + 1, Len(seq))

\* a message, reduced to its role and the request its content comes from
Message(role, r) == [role |-> role, request |-> r]

\* azure_openai_client.py line 193: the system prompt with the KPI context
\* of request r
set_kpi_context(r) == [request |-> r]

\* azure_openai_client.py lines 219-227: the messages of the completion call
MessagesOf(context, history, r) ==
    <<Message("system", context.request)>>
        \o LastN(history, HistoryWindow) \o <<Message("user", r)>>

\* azure_openai_client.py lines 242-247: the history after an answer
Remember(history, r) ==
    LastN(history \o <<Message("user", r), Message("assistant", r)>>,
          HistoryCap)

\* azure_openai_client.py lines 214-236: the completion call is made
Called ==
    /\ client
    /\ current_context' = set_kpi_context(request)
    /\ messages' = MessagesOf(current_context', conversation_history, request)

-----------------------------------------------------------------------------
(* One request to GET /api/ai-insights *)

IdleSanitize ==
    /\ sample = PyNone
    /\ converted = <<>>
    /\ cleaned = PyNone
    /\ recleaned = PyNone

IdleScore ==
    /\ metrics = <<>>
    /\ scores = <<>>

IdleBucket ==
    /\ frame = <<>>
    /\ buckets = <<>>

\* database.py line 37: no engine yet, and no thread inside get_engine
IdleEngine ==
    /\ _engine = 0
    /\ callers = [e \in ExtractorSet |-> [at |-> "outside", made |-> 0]]
    /\ engines = 0
    /\ returned = [e \in ExtractorSet |-> <<>>]

\* current_context before set_kpi_context has run
NoContext == [request |-> 0]

\* azure_openai_client.py lines 30-43: the AzureOpenAIClient as constructed,
\* before the first request
NewClient ==
    /\ kpi_context = <<>>
    /\ current_context = NoContext
    /\ conversation_history = <<>>
    /\ messages = <<>>
    /\ request = 1

IdleClient == NewClient /\ client = FALSE

Idle == IdleSanitize /\ IdleScore /\ IdleBucket /\ IdleEngine /\ IdleClient

IdleRequest ==
    /\ path = "none"
    /\ worker = [e \in ExtractorSet |-> "idle"]
    /\ docs = [e \in ExtractorSet |-> NoDoc]
    /\ ai_status = "none"
    /\ ai_calls = 0
    /\ faults = {}
    /\ result = NoResult
    /\ http = NoHttp

Init ==
    /\ pc = "idle"
    /\ response = EmptyText
    /\ sections = <<>>
    /\ insights = <<>>
    /\ IdleRequest
    /\ database \in RequestDatabases
    /\ IdleSanitize /\ IdleScore /\ IdleBucket /\ IdleEngine
    /\ NewClient
    /\ client \in BOOLEAN

\* the extractors in submission order that have not been started
NotStarted == {i \in 1..Len(Extractors) : worker[Extractors[i]] = "idle"}
AllDone == \A e \in ExtractorSet : worker[e] = "done"
NoneRunning == \A e \in ExtractorSet : worker[e] # "running"

\* the moment of the request at which a call reads the clock
StampNow == Stamps[Cardinality({o \in ExtractorSet : worker[o] = "done"}) + 1]

Return(r) ==
    /\ result' = r
    /\ pc' = "returned"

\* main.py lines 417-424: the endpoint calls generate_insights
GetAiInsights ==
    /\ pc = "idle"
    /\ pc' = "wrapper"
    /\ UNCHANGED <<otherVars, parseVars, requestVars>>

\* lines 64-75: the wrapper runs generate_insights_async on an event loop
WrapperRun ==
    /\ pc = "wrapper"
    /\ pc' = "pool"
    /\ path' = "parallel"
    /\ UNCHANGED <<otherVars, parseVars, worker, docs, ai_status, ai_calls, faults,
                   result, http>>

\* lines 76-79: event-loop handling raises, the sequential path is taken
WrapperFault ==
    /\ pc = "wrapper"
    /\ pc' = "sequential"
    /\ path' = "sequential"
    /\ faults' = faults \cup {"event_loop"}
    /\ UNCHANGED <<otherVars, parseVars, worker, docs, ai_status, ai_calls, result, http>>

\* line 121: the worker pool is created
CreatePool ==
    /\ pc = "pool"
    /\ pc' = "submit"
    /\ UNCHANGED <<otherVars, parseVars, requestVars>>

\* line 121 raises: the handler of line 142 returns the failure document
PoolFault ==
    /\ pc = "pool"
    /\ faults' = faults \cup {"pool"}
    /\ Return(AsyncExcept("pool"))
    /\ UNCHANGED <<otherVars, parseVars, path, worker, docs, ai_status, ai_calls, http>>

\* lines 123-131: the next extractor call is handed to the pool
Submit ==
    /\ pc = "submit"
    /\ LET i == MinOf(NotStarted)
       IN  /\ worker' = [worker EXCEPT ![Extractors[i]] = "running"]
           /\ pc' = IF i = Len(Extractors) THEN "gather" ELSE "submit"
    /\ UNCHANGED <<otherVars, parseVars, path, docs, ai_status, ai_calls, faults,
                   result, http>>

\* run_in_executor raises: the with block is left through its __exit__
SubmitFault ==
    /\ pc = "submit"
    /\ pc' = "drain"
    /\ faults' = faults \cup {"submit"}
    /\ UNCHANGED <<otherVars, parseVars, path, worker, docs, ai_status, ai_calls,
                   result, http>>

\* lines 36-58: a pool worker runs _extract_*_kpis_sync to its end
WorkerFinish(e) ==
    /\ path = "parallel"
    /\ worker[e] = "running"
    /\ worker' = [worker EXCEPT ![e] = "done"]
    /\ \E raises \in BOOLEAN :
          LET kpi_data == extract_all_kpis(e, database, StampNow)
          IN  docs' = [docs EXCEPT ![e] =
                          IF raises \/ "exception" \in DOMAIN kpi_data
                          THEN ErrorDoc ELSE kpi_data]
    /\ UNCHANGED <<otherVars, pc, parseVars, path, ai_status, ai_calls, faults,
                   result, http>>

\* Gather completing on the first finished future instead of on all three
GatherFirstCompleted ==
    /\ pc = "gather"
    /\ \E e \in ExtractorSet : worker[e] = "done"
    /\ pc' = "process"
    /\ UNCHANGED <<otherVars, parseVars, requestVars>>

\* lines 134-138: the gather completes once the three futures are done
Gather ==
    /\ pc = "gather"
    /\ AllDone
    /\ pc' = "process"
    /\ UNCHANGED <<otherVars, parseVars, requestVars>>

\* the await of line 134 raises
GatherFault ==
    /\ pc = "gather"
    /\ pc' = "drain"
    /\ faults' = faults \cup {"gather"}
    /\ UNCHANGED <<otherVars, parseVars, path, worker, docs, ai_status, ai_calls,
                   result, http>>

\* ThreadPoolExecutor.__exit__ waits for the submitted calls, then the
\* handler of line 142 returns the failure document
Drain ==
    /\ pc = "drain"
    /\ NoneRunning
    /\ Return(AsyncExcept("scheduling"))
    /\ UNCHANGED <<otherVars, parseVars, path, worker, docs, ai_status, ai_calls,
                   faults, http>>

\* lines 89-91: the next extract_all_kpis call starts
SequentialStart ==
    /\ pc = "sequential"
    /\ NoneRunning
    /\ NotStarted # {}
    /\ worker' = [worker EXCEPT ![Extractors[MinOf(NotStarted)]] = "running"]
    /\ UNCHANGED <<otherVars, pc, parseVars, path, docs, ai_status, ai_calls, faults,
                   result, http>>

\* lines 89-91: the running call returns its document
SequentialFinish(e) ==
    /\ pc = "sequential"
    /\ worker[e] = "running"
    /\ worker' = [worker EXCEPT ![e] = "done"]
    /\ "exception" \notin DOMAIN extract_all_kpis(e, database, StampNow)
    /\ docs' = [docs EXCEPT ![e] = extract_all_kpis(e, database, StampNow)]
    /\ pc' = IF \A o \in ExtractorSet \ {e} : worker[o] = "done"
             THEN "process" ELSE "sequential"
    /\ UNCHANGED <<otherVars, parseVars, path, ai_status, ai_calls, faults, result, http>>

\* lines 89-91 raise: the handler of line 95 returns the failure document
SequentialRaise(e) ==
    /\ pc = "sequential"
    /\ worker[e] = "running"
    /\ worker' = [worker EXCEPT ![e] = "done"]
    /\ faults' = faults \cup {"extractor"}
    /\ Return(SequentialExcept("extractor"))
    /\ UNCHANGED <<otherVars, parseVars, path, docs, ai_status, ai_calls, http>>

\* lines 158-161: the context and the prompt are built
PrepareContext ==
    /\ pc = "process"
    /\ pc' = "chat"
    /\ kpi_context' = _prepare_kpi_context(docs["operations"], docs["safety"],
                                           docs["combined"])
    /\ UNCHANGED <<idleVars, client, current_context, conversation_history,
                   messages, request, parseVars, requestVars>>

\* lines 158-161 raise: the handler of line 187 returns the fallback
PrepareContextRaise ==
    /\ pc = "process"
    /\ faults' = faults \cup {"context"}
    /\ Return(_generate_fallback_insights)
    /\ UNCHANGED <<otherVars, parseVars, path, worker, docs, ai_status, ai_calls, http>>

\* ChatFails calling the collaborator again instead of returning
ChatFailsRetries ==
    /\ pc = "chat"
    /\ ai_calls < 2
    /\ ai_calls' = ai_calls + 1
    /\ ai_status' = "failed"
    /\ UNCHANGED <<pc, otherVars, parseVars, path, worker, docs, faults,
                   result, http>>

\* lines 162-166: the collaborator reports failure, either for want of an
\* API client (azure_openai_client.py lines 207-212) or because the
\* completion call raised (lines 255-260)
ChatFails ==
    /\ pc = "chat"
    /\ ai_calls' = ai_calls + 1
    /\ ai_status' = "failed"
    /\ Return(_generate_fallback_insights)
    /\ \/ ~client /\ UNCHANGED <<current_context, messages>>
       \/ Called
    /\ UNCHANGED <<idleVars, client, kpi_context, conversation_history,
                   request, parseVars, path, worker, docs, faults, http>>

\* lines 162-186: the collaborator answers and the answer is parsed
ChatAnswers(text) ==
    /\ pc = "chat"
    /\ ai_calls' = ai_calls + 1
    /\ ai_status' = "ok"
    /\ response' = text
    /\ sections' = KindsOf(text)
    /\ insights' = _parse_ai_insights(text)
    /\ Return(ProcessedResult(insights', docs["operations"], docs["safety"],
                              docs["combined"]))
    /\ Called
    /\ conversation_history' = Remember(conversation_history, request)
    /\ UNCHANGED <<idleVars, client, kpi_context, request, path, worker, docs,
                   faults, http>>

\* lines 168-186 raise after the answer: the handler of line 187
ChatAnswerRaise(text) ==
    /\ pc = "chat"
    /\ ai_calls' = ai_calls + 1
    /\ ai_status' = "ok"
    /\ response' = text
    /\ sections' = KindsOf(text)
    /\ faults' = faults \cup {"process"}
    /\ Return(_generate_fallback_insights)
    /\ Called
    /\ conversation_history' = Remember(conversation_history, request)
    /\ UNCHANGED <<idleVars, client, kpi_context, request, insights, path,
                   worker, docs, http>>

\* main.py lines 426-457: the endpoint answers
Respond ==
    /\ pc = "returned"
    /\ http' = EndpointAnswer(result)
    /\ pc' = "responded"
    /\ UNCHANGED <<otherVars, parseVars, path, worker, docs, ai_status, ai_calls,
                   faults, result>>

\* main.py lines 63 and 417-424: the next request is served by the same
\* AIInsightsGenerator and its AzureOpenAIClient; the locals of the request
\* before are gone
NextRequest ==
    /\ pc = "responded"
    /\ request < MaxRequests
    /\ pc' = "idle"
    /\ request' = request + 1
    /\ response' = EmptyText
    /\ sections' = <<>>
    /\ insights' = <<>>
    /\ path' = "none"
    /\ worker' = [e \in ExtractorSet |-> "idle"]
    /\ docs' = [e \in ExtractorSet |-> NoDoc]
    /\ ai_status' = "none"
    /\ ai_calls' = 0
    /\ faults' = {}
    /\ result' = NoResult
    /\ http' = NoHttp
    /\ kpi_context' = <<>>
    /\ messages' = <<>>
    /\ UNCHANGED <<idleVars, client, current_context, conversation_history>>

Next ==
    \/ GetAiInsights
    \/ WrapperRun
    \/ WrapperFault
    \/ CreatePool
    \/ PoolFault
    \/ Submit
    \/ SubmitFault
    \/ \E e \in ExtractorSet : WorkerFinish(e)
    \/ Gather
    \/ GatherFault
    \/ Drain
    \/ SequentialStart
    \/ \E e \in ExtractorSet : SequentialFinish(e)
    \/ \E e \in ExtractorSet : SequentialRaise(e)
    \/ PrepareContext
    \/ PrepareContextRaise
    \/ ChatFails
    \/ \E text \in RequestTexts : ChatAnswers(text)
    \/ \E text \in RequestTexts : ChatAnswerRaise(text)
    \/ Respond
    \/ NextRequest

Spec == Init /\ [][Next]_vars

-----------------------------------------------------------------------------
(* Specification of the parser alone: the loop over the sections, then the  *)
(* padding and the return                                                   *)

InitParse ==
    /\ pc = "parse"
    /\ \/ \E kinds \in ParseInputs :
             /\ sections = kinds
             /\ response = TextOf(kinds)
       \/ /\ sections = <<>>
          /\ response \in {NoneText, EmptyText}
    /\ insights = <<>>
    /\ IdleRequest
    /\ database = AllEmpty
    /\ Idle

\* lines 328-371; on a None response line 328 raises and line 390 returns
ParseLoop ==
    /\ pc = "parse"
    /\ IF response.none
       THEN /\ insights' = _generate_default_insights
            /\ pc' = "parsed"
       ELSE /\ insights' = ParseSections(<<>>, Split(response.chars, Marker), 2)
            /\ pc' = "padding"
    /\ UNCHANGED <<otherVars, response, sections, requestVars>>

\* lines 373-386
PadAndReturn ==
    /\ pc = "padding"
    /\ insights' = Truncate(PadWithDefaults(insights))
    /\ pc' = "parsed"
    /\ UNCHANGED <<otherVars, response, sections, requestVars>>

NextParse == ParseLoop \/ PadAndReturn

SpecParse == InitParse /\ [][NextParse]_vars

-----------------------------------------------------------------------------
(* Specification of one extract_all_kpis call on a data source *)

InitExtract ==
    /\ pc = "extract"
    /\ response = EmptyText
    /\ sections = <<>>
    /\ insights = <<>>
    /\ path = "none"
    /\ \E e \in ExtractorSet :
          worker = [o \in ExtractorSet |-> IF o = e THEN "running" ELSE "idle"]
    /\ docs = [e \in ExtractorSet |-> NoDoc]
    /\ ai_status = "none"
    /\ ai_calls = 0
    /\ faults = {}
    /\ result = NoResult
    /\ http = NoHttp
    /\ database \in Databases
    /\ Idle

\* extract_all_kpis of extractor e runs to its return, or to the exception
\* that leaves it
ExtractAllKpis(e) ==
    /\ pc = "extract"
    /\ worker[e] = "running"
    /\ worker' = [worker EXCEPT ![e] = "done"]
    /\ LET kpi_data == extract_all_kpis(e, database, StampNow)
       IN  IF "exception" \in DOMAIN kpi_data
           THEN /\ pc' = "raised"
                /\ docs' = docs
           ELSE /\ pc' = "extracted"
                /\ docs' = [docs EXCEPT ![e] = kpi_data]
    /\ UNCHANGED <<otherVars, parseVars, path, ai_status, ai_calls, faults,
                   result, http>>

NextExtract == \E e \in ExtractorSet : ExtractAllKpis(e)

SpecExtract == InitExtract /\ [][NextExtract]_vars

-----------------------------------------------------------------------------
(* Specification of the sanitizers on one value: safe_float and safe_int on *)
(* a scalar, clean_data_for_json on any value and once more on its result   *)

\* the floats, whole within the bound, and the three non-finite ones
Floats == {PyFloat(n) : n \in -MaxNumber..MaxNumber} \cup {NaN, PosInf, NegInf}

\* the values of the built-in scalar types
Scalars ==
    Floats \cup {PyInt(n) : n \in -MaxNumber..MaxNumber}
      \cup {PyStr("text"), PyStr("nan"), PyBool(TRUE), PyBool(FALSE), PyNone}

\* a Timestamp, an object whose to_dict raises, a Series and an array
Objects ==
    {Opaque("2024-01-01 00:00:00"), Broken("<object>")}
      \cup {Series([value |-> x]) : x \in Floats}
      \cup {NdArray(<<x>>) : x \in Floats}

\* the values the containers are filled with
Items ==
    {PyFloat(1), NaN, NegInf, PyInt(1), PyStr("text"), PyNone,
     Opaque("2024-01-01 00:00:00"), NdArray(<<PosInf>>)}

KeyNames == <<"a", "b", "c", "d">>
Keys == {KeyNames[i] : i \in 1..MaxItems}

Lists == {PyList(items) : items \in UNION {[1..n -> Items] : n \in 0..MaxItems}}
Dicts == {PyDict(items) : items \in UNION {[K -> Items] : K \in SUBSET Keys}}

\* the values of depth d: a list, a dict, a Series or an array around a
\* value of depth d - 1
RECURSIVE Nested(_)
Nested(d) ==
    IF d = 0 THEN Scalars \cup Objects \cup Lists \cup Dicts
    ELSE LET inner == Nested(d - 1)
         IN  inner \cup {PyList(<<x>>) : x \in inner}
                   \cup {PyDict([a |-> x]) : x \in inner}
                   \cup {Series([value |-> x]) : x \in inner}

\* the kpis dicts the three extract_all_kpis hand to clean_data_for_json
RawDocuments ==
    {PyDict(kpis(e, db, Stamps[1])) :
        e \in ExtractorSet,
        db \in {Populated(PyFloat(42)), Populated(NaN), Populated(NegInf)}}

Samples == Nested(MaxDepth) \cup RawDocuments

InitClean ==
    /\ pc = "sanitize"
    /\ response = EmptyText
    /\ sections = <<>>
    /\ insights = <<>>
    /\ IdleRequest
    /\ database = AllEmpty
    /\ sample \in Samples
    /\ converted = <<>>
    /\ cleaned = PyNone
    /\ recleaned = PyNone
    /\ IdleScore
    /\ IdleBucket
    /\ IdleEngine
    /\ IdleClient

\* safe_float(value), safe_int(value) and safe_float(value, 0) on a value
\* of a built-in scalar type
Convert ==
    /\ pc = "sanitize"
    /\ sample \in Scalars
    /\ converted = <<>>
    /\ converted' = <<safe_float(sample, DefaultFloat),
                      safe_int(sample, DefaultInt),
                      safe_float(sample, PyInt(0))>>
    /\ UNCHANGED <<pc, parseVars, requestVars, database, bucketVars, engineVars,
                   clientVars, sample, cleaned,
                   recleaned, scoreVars>>

\* clean_data_for_json(data)
Clean ==
    /\ pc = "sanitize"
    /\ cleaned' = clean_data_for_json(sample)
    /\ pc' = "cleaned"
    /\ UNCHANGED <<parseVars, requestVars, database, bucketVars, engineVars,
                   clientVars, sample, converted,
                   recleaned, scoreVars>>

\* clean_data_for_json on what clean_data_for_json returned
CleanAgain ==
    /\ pc = "cleaned"
    /\ recleaned' = clean_data_for_json(cleaned)
    /\ pc' = "recleaned"
    /\ UNCHANGED <<parseVars, requestVars, database, bucketVars, engineVars,
                   clientVars, sample, converted,
                   cleaned, scoreVars>>

NextClean == Convert \/ Clean \/ CleanAgain

SpecClean == InitClean /\ [][NextClean]_vars

-----------------------------------------------------------------------------
(* Specification of the derived scores: the aggregates of one row of a     *)
(* scoring query, then the weighted blend computed from them                *)

Blends ==
    {"transporter_performance", "trip_risk", "driver_risk",
     "route_efficiency", "route_safety", "composite_engagement",
     "transporter_composite", "fatigue_risk", "driver_performance_index"}

\* weights that do not add up to one in one of the blends
WeightsUneven(blend) ==
    CASE blend \in {"transporter_performance", "trip_risk"} -> <<40, 30, 20, 20>>
      [] blend \in {"driver_risk", "route_safety"} -> <<50, 30, 20>>
      [] blend = "route_efficiency" -> <<40, 30, 30>>
      [] blend = "composite_engagement" -> <<30, 30, 20, 20>>
      [] blend = "transporter_composite" -> <<25, 20, 15, 20, 15, 5>>
      [] blend = "fatigue_risk" -> <<60, 20, 20>>
      [] blend = "driver_performance_index" ->
            <<15, 15, 10, 10, 20, 10, 5, 5, 5, 5>>

\* the weights of the blends, in hundredths, in the order of the source
Weights(blend) ==
    CASE blend = "transporter_performance" -> <<40, 30, 20, 10>>
      [] blend = "trip_risk" -> <<40, 30, 20, 10>>
      [] blend = "driver_risk" -> <<50, 30, 20>>
      [] blend = "route_efficiency" -> <<40, 30, 30>>
      [] blend = "route_safety" -> <<50, 30, 20>>
      [] blend = "composite_engagement" -> <<30, 30, 20, 20>>
      [] blend = "transporter_composite" -> <<25, 20, 15, 20, 15, 5>>
      [] blend = "fatigue_risk" -> <<60, 20, 20>>
      [] blend = "driver_performance_index" ->
            <<15, 15, 10, 10, 20, 10, 5, 5, 5, 5>>

\* rates that are a share of the trips or checklists of the row, in percent
Percents == {0, 50, 100}
\* AVG(delivery_volume_actual / delivery_volume_planned * 100)
Volumes == {0, 100, MaxPercent}
\* actual over planned distance, in percent
Ratios == {50, 110, MaxPercent}
\* stored scores of drivers and transporters: NULL or within 0..100
Stored == {PyNone, PyInt(0), PyInt(100)}
\* numbers of events, incidents or violations, in all or per trip
Counts == {0, 1, MaxEvents}
\* average trip duration in whole hours and route length in kilometres
Hours == 1..MaxHours
Distances == {1, 400, 600}
\* hour of the day of the departure
Departures == {3, 15, 23}

\* the aggregates each blend is computed from
Aggregates(blend) ==
    CASE blend = "transporter_performance" ->
            [blend : {blend}, on_time_rate_pct : Percents,
             volume_fulfillment_pct : Volumes, missed_pct : Percents,
             distance_efficiency_ratio : Ratios]
      [] blend = "trip_risk" ->
            [blend : {blend}, safety_score : Stored, fatigue_score : Stored,
             transporter_score : Stored, total_events : Counts]
      [] blend = "driver_risk" ->
            [blend : {blend}, safety_score : Stored, fatigue_score : Stored,
             risk_events : Counts]
      [] blend = "route_efficiency" ->
            [blend : {blend}, on_time_rate : Percents,
             distance_efficiency_ratio : Ratios,
             avg_duration_hours : Hours, planned_distance : Distances]
      [] blend = "route_safety" ->
            [blend : {blend}, safety_score : Stored, safety_events : Counts,
             incidents : Counts]
      [] blend = "composite_engagement" ->
            [blend : {blend}, safety_score : Stored,
             engagement_index : Stored,
             checklist_submission_rate : {PyNone} \cup {PyInt(p) : p \in Percents},
             checklist_compliance_rate : {PyNone} \cup {PyInt(p) : p \in Percents}]
      [] blend = "transporter_composite" ->
            [blend : {blend}, on_time_rate : Percents,
             volume_fulfillment_rate : Volumes, missed_pct : Percents,
             safety_score : Stored, safety_violations : Counts,
             incidents : Counts]
      [] blend = "fatigue_risk" ->
            [blend : {blend}, fatigue_score : Stored, departure : Departures,
             distance_km : Distances]
      [] blend = "driver_performance_index" ->
            [blend : {blend}, on_time_rate : Percents,
             avg_volume_fulfillment : Volumes, missed_pct : Percents,
             distance_efficiency : Ratios, safety_score : Stored,
             fatigue_score : Stored, overspeeding_events : {0, MaxEvents},
             phone_usage_events : {0, MaxEvents},
             harsh_driving_events : {0, MaxEvents}, incidents : {0, MaxEvents}]

\* SQL COALESCE and GREATEST
Coalesce(value, fallback) == IF value.type = "none" THEN fallback ELSE value.v
Greatest(a, b) == IF a >= b THEN a ELSE b

\* 100 if x <= 1.1 else max(0, 100 - (x-1)*100), x in percent
DistanceEfficiency(ratio) ==
    IF ratio <= 110 THEN 100 ELSE Greatest(0, 100 - (ratio - 100))

\* the penalties of the fatigue risk score; BETWEEN 22 AND 5 is
\* departure >= 22 AND departure <= 5
DeparturePenalty(departure) ==
    IF departure >= 22 /\ departure <= 5 THEN 20
    ELSE IF departure >= 14 /\ departure <= 16 THEN 30
    ELSE 50

DistancePenalty(distance_km) ==
    IF distance_km > 500 THEN 20
    ELSE IF distance_km > 300 THEN 35
    ELSE 50

\* the denominator the sub-scores of a row are brought to
Denominator(m) ==
    IF m.blend = "route_efficiency" THEN m.avg_duration_hours ELSE 1

\* the sub-scores of a row, each multiplied by Denominator(m), in the
\* order of the source
SubScores(m) ==
    CASE m.blend = "transporter_performance" ->
            <<m.on_time_rate_pct,
              m.volume_fulfillment_pct,
              100 - m.missed_pct,
              DistanceEfficiency(m.distance_efficiency_ratio)>>
      [] m.blend = "trip_risk" ->
            <<Coalesce(m.safety_score, 50),
              Coalesce(m.fatigue_score, 50),
              Coalesce(m.transporter_score, 50),
              Greatest(0, 100 - m.total_events * 5)>>
      [] m.blend = "driver_risk" ->
            <<Coalesce(m.safety_score, 50),
              Coalesce(m.fatigue_score, 50),
              Greatest(0, 100 - m.risk_events * 10)>>
      [] m.blend = "route_efficiency" ->
            <<m.on_time_rate * m.avg_duration_hours,
              (100 - (m.distance_efficiency_ratio - 100)) * m.avg_duration_hours,
              100 * m.planned_distance>>
      [] m.blend = "route_safety" ->
            <<Coalesce(m.safety_score, 50),
              Greatest(0, 100 - m.safety_events * 5),
              Greatest(0, 100 - m.incidents * 20)>>
      [] m.blend = "composite_engagement" ->
            <<Coalesce(m.safety_score, 50),
              Coalesce(m.engagement_index, 50),
              Coalesce(m.checklist_submission_rate, 50),
              Coalesce(m.checklist_compliance_rate, 50)>>
      [] m.blend = "transporter_composite" ->
            <<m.on_time_rate,
              m.volume_fulfillment_rate,
              100 - m.missed_pct,
              Coalesce(m.safety_score, 50),
              Greatest(0, 100 - m.safety_violations * 20),
              Greatest(0, 100 - m.incidents * 10)>>
      [] m.blend = "fatigue_risk" ->
            <<Coalesce(m.fatigue_score, 50),
              DeparturePenalty(m.departure),
              DistancePenalty(m.distance_km)>>
      [] m.blend = "driver_performance_index" ->
            <<m.on_time_rate,
              m.avg_volume_fulfillment,
              100 - m.missed_pct,
              DistanceEfficiency(m.distance_efficiency),
              Coalesce(m.safety_score, 50),
              Coalesce(m.fatigue_score, 50),
              Greatest(0, 100 - m.overspeeding_events * 20),
              Greatest(0, 100 - m.phone_usage_events * 30),
              Greatest(0, 100 - m.harsh_driving_events * 15),
              Greatest(0, 100 - m.incidents * 25)>>

RECURSIVE Total(_)
Total(numbers) ==
    IF numbers = <<>> THEN 0 ELSE Head(numbers) + Total(Tail(numbers))

\* the blend: the sum of weight times sub-score, as the fraction num / den
Blend(m) ==
    [num |-> Total([i \in 1..Len(SubScores(m)) |->
                        Weights(m.blend)[i] * SubScores(m)[i]]),
     den |-> 100 * Denominator(m)]

InitScore ==
    /\ pc = "score"
    /\ response = EmptyText
    /\ sections = <<>>
    /\ insights = <<>>
    /\ IdleRequest
    /\ database = AllEmpty
    /\ IdleSanitize
    /\ IdleBucket
    /\ IdleEngine
    /\ IdleClient
    /\ metrics \in UNION {Aggregates(blend) : blend \in Blends}
    /\ scores = <<>>

\* the score expression of the blend evaluated on the row
ComputeScore(blend) ==
    /\ pc = "score"
    /\ metrics.blend = blend
    /\ scores' = Blend(metrics)
    /\ pc' = "scored"
    /\ UNCHANGED <<parseVars, requestVars, database, bucketVars, engineVars,
                   clientVars, sanitizeVars, metrics>>

NextScore == \E blend \in Blends : ComputeScore(blend)

SpecScore == InitScore /\ [][NextScore]_vars

-----------------------------------------------------------------------------
(* Specification of the categorical bucketings: the rows of one query, then *)
(* the categories and the counts computed from them                         *)

\* the scores and turnaround times of the rows: the cut points, the ends of
\* the scales and values between them
RiskScores == {0, 40, 50, 60, 80, 100}
TatHours == {0, 4, 8, 12, 13}
SafetyScores == {59, 60, 75, 90, 100}
FatigueScores == {30, 31, 60, 61}

Queries == {"driver_risk_vs_tat_heatmap", "driving_safety_score", "fatigue_scoring"}

RowsOf(query) ==
    CASE query = "driver_risk_vs_tat_heatmap" ->
            [driver_risk_score : RiskScores, avg_tat_hours : TatHours]
      [] query = "driving_safety_score" -> [safety_score : SafetyScores]
      [] query = "fatigue_scoring" -> [fatigue_score : FatigueScores]

\* the non-empty frames of up to MaxDrivers rows
Frames ==
    UNION {[query : {query},
            rows : UNION {[1..n -> RowsOf(query)] : n \in 1..MaxDrivers}] :
           query \in Queries}

\* the bin edges and labels of lines 230-236
RiskBins == <<PyFloat(0), PyFloat(40), PyFloat(60), PyFloat(80), PyFloat(100)>>
RiskLabels == <<"High Risk", "Medium Risk", "Low Risk", "Very Low Risk">>
TatBins == <<PyFloat(0), PyFloat(4), PyFloat(8), PyFloat(12), PosInf>>
TatLabels == <<"Fast", "Normal", "Slow", "Very Slow">>

\* x > edge and x <= edge for a finite or infinite edge
Above(x, edge) == edge.kind = "finite" /\ x > edge.v
AtMost(x, edge) == edge.kind = "inf" \/ (edge.kind = "finite" /\ x <= edge.v)

\* pd.cut(x, bins, labels) with its defaults right=True and
\* include_lowest=False: the bin i is (bins[i], bins[i+1]], a value in no
\* bin gets NaN
cut(x, bins, labels) ==
    LET hits == {i \in 1..Len(labels) : Above(x, bins[i]) /\ AtMost(x, bins[i + 1])}
    IN  IF hits = {} THEN "NaN" ELSE labels[CHOOSE i \in hits : TRUE]

\* lines 917-921 of safety_kpi_extractor.py
fatigue_risk_category(x) ==
    IF x <= 30 THEN "High Risk"
    ELSE IF x <= 60 THEN "Medium Risk"
    ELSE "Low Risk"

\* lines 173-178 of safety_kpi_extractor.py
score_ranges(rows) ==
    LET count(low, high) ==
            Cardinality({i \in 1..Len(rows) :
                            rows[i].safety_score >= low /\ rows[i].safety_score < high})
    IN  [excellent |-> Cardinality({i \in 1..Len(rows) : rows[i].safety_score >= 90}),
         good |-> count(75, 90),
         average |-> count(60, 75),
         poor |-> Cardinality({i \in 1..Len(rows) : rows[i].safety_score < 60})]

\* groupby(keys, observed=True).size(): the rows with a NaN key are left
\* out, the other rows are counted per observed combination of keys
size(keys) ==
    LET kept == {i \in 1..Len(keys) : \A j \in 1..Len(keys[i]) : keys[i][j] # "NaN"}
    IN  [cell \in {keys[i] : i \in kept} |->
            Cardinality({i \in kept : keys[i] = cell})]

\* value_counts(): the rows counted per category that occurs
value_counts(categories) ==
    [c \in {categories[i] : i \in 1..Len(categories)} |->
        Cardinality({i \in 1..Len(categories) : categories[i] = c})]

InitBucket ==
    /\ pc = "bucket"
    /\ response = EmptyText
    /\ sections = <<>>
    /\ insights = <<>>
    /\ IdleRequest
    /\ database = AllEmpty
    /\ IdleSanitize
    /\ IdleScore
    /\ IdleEngine
    /\ IdleClient
    /\ frame \in Frames
    /\ buckets = <<>>

Bucketed(made) ==
    /\ buckets' = made
    /\ pc' = "bucketed"
    /\ UNCHANGED <<parseVars, requestVars, database, sanitizeVars, scoreVars,
                   engineVars, clientVars, frame>>

\* combined_kpi_extractor.py lines 229-248
RiskVsTatHeatmap ==
    /\ pc = "bucket"
    /\ frame.query = "driver_risk_vs_tat_heatmap"
    /\ LET df == frame.rows
           risk_category == [i \in 1..Len(df) |->
                                cut(df[i].driver_risk_score, RiskBins, RiskLabels)]
           tat_category == [i \in 1..Len(df) |->
                                cut(df[i].avg_tat_hours, TatBins, TatLabels)]
       IN  Bucketed([risk_category |-> risk_category,
                     tat_category |-> tat_category,
                     total_drivers_analyzed |-> Len(df),
                     heatmap_data |->
                         size([i \in 1..Len(df) |->
                                  <<risk_category[i], tat_category[i]>>])])

\* safety_kpi_extractor.py lines 172-187
SafetyDistribution ==
    /\ pc = "bucket"
    /\ frame.query = "driving_safety_score"
    /\ Bucketed([total_drivers |-> Len(frame.rows),
                 safety_distribution |-> score_ranges(frame.rows)])

\* safety_kpi_extractor.py lines 916-933
FatigueCategories ==
    /\ pc = "bucket"
    /\ frame.query = "fatigue_scoring"
    /\ LET df == frame.rows
           category == [i \in 1..Len(df) |->
                            fatigue_risk_category(df[i].fatigue_score)]
       IN  Bucketed([fatigue_risk_category |-> category,
                     total_drivers_analyzed |-> Len(df),
                     fatigue_risk_distribution |-> value_counts(category)])

NextBucket == RiskVsTatHeatmap \/ SafetyDistribution \/ FatigueCategories

SpecBucket == InitBucket /\ [][NextBucket]_vars

-----------------------------------------------------------------------------
(* Specification of db.get_engine() under the three extractor threads of    *)
(* the parallel fan-out: every metric method of an extractor calls it       *)

InitEngine ==
    /\ pc = "engine"
    /\ response = EmptyText
    /\ sections = <<>>
    /\ insights = <<>>
    /\ IdleRequest
    /\ database = AllEmpty
    /\ IdleSanitize
    /\ IdleScore
    /\ IdleBucket
    /\ IdleClient
    /\ IdleEngine

At(e, at) == callers[e].at = at

Move(e, at, made) ==
    callers' = [callers EXCEPT ![e] = [at |-> at, made |-> made]]

engineIdle == <<pc, parseVars, requestVars, database, sanitizeVars,
                scoreVars, bucketVars, clientVars>>

\* database.py line 86: `if not self._engine`
CheckEngine(e) ==
    /\ At(e, "outside")
    /\ Len(returned[e]) < MaxCalls
    /\ Move(e, IF _engine = 0 THEN "create" ELSE "return", 0)
    /\ UNCHANGED <<engineIdle, _engine, engines, returned>>

\* database.py lines 87-97: create_engine makes a new engine with its pool
CreateEngine(e) ==
    /\ At(e, "create")
    /\ engines' = engines + 1
    /\ Move(e, "assign", engines')
    /\ UNCHANGED <<engineIdle, _engine, returned>>

\* database.py line 91: the assignment to self._engine
AssignEngine(e) ==
    /\ At(e, "assign")
    /\ _engine' = callers[e].made
    /\ Move(e, "return", 0)
    /\ UNCHANGED <<engineIdle, engines, returned>>

\* database.py line 98: `return self._engine`
ReturnEngine(e) ==
    /\ At(e, "return")
    /\ returned' = [returned EXCEPT ![e] = Append(@, _engine)]
    /\ Move(e, "outside", 0)
    /\ UNCHANGED <<engineIdle, _engine, engines>>

NextEngine ==
    \/ \E e \in ExtractorSet : CheckEngine(e)
    \/ \E e \in ExtractorSet : CreateEngine(e)
    \/ \E e \in ExtractorSet : AssignEngine(e)
    \/ \E e \in ExtractorSet : ReturnEngine(e)

SpecEngine == InitEngine /\ [][NextEngine]_vars

-----------------------------------------------------------------------------
(* What the properties observe *)

\* the title the composed text gives its i-th section
CandidateTitle(i) == TitleText(i, sections[i])

\* the description the composed text gives its i-th section
CandidateDescription(i) == DescPool[sections[i]]

\* the non-empty candidate sections of the response
Candidates == {i \in 1..Len(sections) : sections[i] # 0}

\* candidate i is in the list
Listed(i) ==
    \E j \in 1..Len(insights) : insights[j].title = CandidateTitle(i)

DisallowedSuffixes ==
    <<<<"(">>, <<" ","a","l","s","o">>, <<" ","s","e","e">>, <<" ","a","n","d">>, <<" ","b","u","t">>, <<" ","a","t">>>>
BoilerplatePhrases == <<<<"f","u","r","t","h","e","r"," ","d","a","t","a"," ","a","n","a","l","y","s","i","s">>, <<"a","d","d","i","t","i","o","n","a","l"," ","a","n","a","l","y","s","i","s">>>>

Dangling(d) ==
    \/ \E k \in 1..Len(DisallowedSuffixes) : EndsWith(d, DisallowedSuffixes[k])
    \/ \E k \in 1..Len(BoilerplatePhrases) :
          Contains(Lower(d), BoilerplatePhrases[k])

\* the rejection rule as the specification words it
RejectedAsClaimed(d) == Len(d) < 25 \/ Dangling(d)

\* the rejection rule with the boundary of the code
RejectedAsAmended(d) == Len(d) <= 25 \/ Dangling(d)

\* the candidates that survive validation, in input order
RECURSIVE SurvivorsFrom(_)
SurvivorsFrom(i) ==
    IF i > Len(sections) THEN <<>>
    ELSE IF sections[i] # 0 /\ ~RejectedAsAmended(CandidateDescription(i))
    THEN <<i>> \o SurvivorsFrom(i + 1)
    ELSE SurvivorsFrom(i + 1)
Survivors == SurvivorsFrom(1)

Finished == pc \in {"returned", "responded"}

\* the call of extractor e returned a category document
Extracted(e) == DOMAIN docs[e] = Roster(e) \cup StampKeys

-----------------------------------------------------------------------------
(* Properties *)

\* C1: for every input text (empty, without marker, any mix of valid and
\* invalid sections, None) the returned list has between 8 and 10 entries.
C1_InsightCountInRange ==
    pc = "parsed" => Len(insights) >= 8 /\ Len(insights) <= 10

C1_Witness ==
    /\ pc = "parsed"
    /\ Len(Survivors) > 10
    /\ Len(insights) = 10

\* C2: with k < 8 surviving candidates the returned list has exactly 8
\* entries: the k parsed ones with ids 1..k, then the first 8-k defaults of
\* the library in its order with ids k+1..8.
C2_PadsToExactlyEight ==
    pc = "parsed" /\ ~response.none =>
        LET survivors == Survivors
            k == Len(survivors)
        IN  k < 8 =>
              /\ Len(insights) = 8
              /\ \A j \in 1..k :
                    /\ insights[j].id = j
                    /\ insights[j].title = CandidateTitle(survivors[j])
              /\ \A j \in (k + 1)..8 :
                    insights[j] =
                        [_generate_default_insights[j - k] EXCEPT !.id = j]

\* C3: in every returned list the ids are 1, 2, ..., n in list order.
C3_IdsSequential ==
    pc = "parsed" => \A j \in 1..Len(insights) : insights[j].id = j

C3_Witness ==
    /\ pc = "parsed"
    /\ Len(Survivors) = 3
    /\ Len(insights) > 3
    /\ insights[4].title = _generate_default_insights[1].title

\* C4: no description of the list ends with " see" and none is shorter
\* than 25 characters.
C4_NoDanglingSeeNoShortDescription ==
    pc \in {"padding", "parsed"} =>
        \A j \in 1..Len(insights) :
            /\ ~EndsWith(insights[j].description, <<" ","s","e","e">>)
            /\ Len(insights[j].description) >= 25

C4_Witness ==
    /\ pc = "parsed"
    /\ \E i \in Candidates : EndsWith(CandidateDescription(i), <<" ","s","e","e">>)
    /\ \E i \in Candidates : Len(CandidateDescription(i)) < 25

\* C5 as claimed: a candidate is rejected exactly when its description is
\* shorter than 25 characters, ends with a disallowed suffix or contains a
\* boilerplate phrase; a description of exactly 25 characters is accepted.
C5_RejectionRuleAsClaimed ==
    pc = "padding" =>
        \A i \in Candidates :
            Listed(i) <=> ~RejectedAsClaimed(CandidateDescription(i))

\* C5 as amended: a candidate is rejected exactly when its description has
\* at most 25 characters, ends with a disallowed suffix or contains a
\* boilerplate phrase; a description of exactly 26 characters is accepted.
C5_RejectionRuleAmended ==
    pc = "padding" =>
        \A i \in Candidates :
            Listed(i) <=> ~RejectedAsAmended(CandidateDescription(i))

C5_Witness ==
    /\ pc = "padding"
    /\ \E i \in Candidates :
          Len(CandidateDescription(i)) = 25 /\ ~Listed(i)
    /\ \E i \in Candidates :
          Len(CandidateDescription(i)) = 26 /\ Listed(i)

\* C6: with v >= 8 surviving candidates no default is appended: the list is
\* the first min(v, 10) survivors in input order, numbered from 1, rejected
\* candidates consuming no id.
C6_NoPaddingFromEightSurvivors ==
    pc = "parsed" /\ ~response.none =>
        LET survivors == Survivors
            v == Len(survivors)
        IN  v >= 8 =>
              /\ Len(insights) = IF v < 10 THEN v ELSE 10
              /\ \A j \in 1..Len(insights) :
                    /\ insights[j].id = j
                    /\ insights[j].title = CandidateTitle(survivors[j])
                    /\ insights[j].description
                          = CandidateDescription(survivors[j])

C6_Witness ==
    /\ pc = "parsed"
    /\ Len(sections) = 11
    /\ Len(Survivors) = 8
    /\ Len(insights) = 8

\* C7: whenever the collaborator reports failure or processing raises
\* inside _process_insights_data, generate_insights returns success = true,
\* fallback_mode = true and the 8-entry default library, never an empty list.
C7_FailureYieldsFallback ==
    Finished /\ (ai_status = "failed" \/ faults \cap {"context", "process"} # {})
      => /\ "success" \in DOMAIN result
         /\ result.success = TRUE
         /\ "fallback_mode" \in DOMAIN result
         /\ result.fallback_mode = TRUE
         /\ Len(result.insights) = 8
         /\ result.insights = _generate_default_insights

C7_Witness ==
    /\ pc = "returned"
    /\ ai_status = "failed"
    /\ ai_calls = 1

\* C8: every result with success = true carries generation_timestamp,
\* date_range and data_sources, on the fallback_mode path as well.
C8_SuccessCarriesMetadata ==
    Finished /\ "success" \in DOMAIN result /\ result.success = TRUE
      => {"generation_timestamp", "date_range", "data_sources"}
            \subseteq DOMAIN result

\* C9: when the three extractors succeed and only the collaborator fails,
\* GET /api/ai-insights answers with the fallback list and not with a 500.
C9_AiFailureAnsweredWithFallback ==
    (/\ pc = "responded"
     /\ faults = {}
     /\ \A e \in ExtractorSet : Extracted(e)
     /\ ai_status = "failed")
      => /\ http.status # 500
         /\ http.status = 200
         /\ http.fallback_mode = TRUE
         /\ http.insights = _generate_default_insights

\* C10: generate_insights never lets an exception reach its caller; it
\* returns a dictionary, and when the parallel and the sequential path both
\* fail the dictionary is {success: false, error, insights: [],
\* generation_timestamp}.
C10_AlwaysReturnsDictionary ==
    Finished =>
        /\ "exception" \notin DOMAIN result
        /\ "success" \in DOMAIN result
        /\ {"event_loop", "extractor"} \subseteq faults =>
              /\ DOMAIN result
                    = {"success", "error", "insights", "generation_timestamp"}
              /\ result.success = FALSE
              /\ result.insights = <<>>

C10_Witness ==
    /\ pc = "returned"
    /\ path = "sequential"
    /\ {"event_loop", "extractor"} \subseteq faults

-----------------------------------------------------------------------------
(* Orchestration *)

SchedulingFaults == {"pool", "submit", "gather"}

\* C11: when the parallel path fails by a scheduling or await fault (pool
\* creation, submission or the gather raises), the three extractions are
\* re-run sequentially before anything is returned, and a failure document
\* is returned only after the sequential path was attempted and failed.
C11_SchedulingFaultRerunsSequentially ==
    Finished =>
        /\ (faults \cap SchedulingFaults # {} => path = "sequential")
        /\ ("success" \in DOMAIN result /\ ~result.success
               => path = "sequential")

\* C12: _process_insights_data, the AI call and the response start only
\* after all three extractor calls have returned, on the parallel and on the
\* sequential path; nothing is returned while an extractor call is running.
C12_JoinAll ==
    /\ (pc \in {"process", "chat"} \/ ai_calls > 0) => AllDone
    /\ Finished => NoneRunning

C12_Witness ==
    /\ pc = "process"
    /\ path = "parallel"
    /\ AllDone
    /\ faults = {}

-----------------------------------------------------------------------------
(* Category documents *)

\* position of extractor e in the order of lines 89-91
OrderOf(e) == CHOOSE i \in 1..Len(Extractors) : Extractors[i] = e

\* the document the sequential path obtains from extractor e
SequentialDocument(e) == extract_all_kpis(e, database, Stamps[OrderOf(e)])

SameButStamp(a, b) ==
    /\ DOMAIN a = DOMAIN b
    /\ \A key \in DOMAIN a \ {"extraction_timestamp"} : a[key] = b[key]

AllExtracted == \A e \in ExtractorSet : Extracted(e)

RaisedCalls == {e \in ExtractorSet : docs[e] = ErrorDoc}

\* C14: when exactly one extract_all_kpis call raises, the request still
\* completes with the two other category documents and an error-shaped
\* document for the failing category, on the parallel path and on the
\* sequential path.
C14_OneExtractorFailureIsIsolated ==
    (/\ Finished
     /\ faults \cap (SchedulingFaults \cup {"context", "process"}) = {}
     /\ Cardinality(RaisedCalls) = 1 \/ "extractor" \in faults)
      => /\ result.success = TRUE
         /\ Cardinality(RaisedCalls) = 1
         /\ Cardinality({e \in ExtractorSet : Extracted(e)}) = 2

ErrorValue == PyDict([error |-> PyStr("message")])

\* the data source with the failing calls answered by rows
Unfailed(db) ==
    [key \in AllKeys |-> IF db[key].kind = "fails" THEN Rows(PyFloat(42))
                         ELSE db[key]]

FailedKeys(e) == {key \in Roster(e) : database[key].kind = "fails"}

\* C15: when the data-source call of metric k fails, extract_all_kpis still
\* returns all N roster keys with extraction_timestamp and date_range, key
\* k holds {"error": message}, every other key holds the value it would
\* have held without the failure, and no exception reaches the caller.
C15_MetricFailureIsIsolated ==
    \A e \in ExtractorSet :
        /\ ~Escapes(e, database)
        /\ pc # "raised"
        /\ Extracted(e) =>
              LET unfailed == extract_all_kpis(e, Unfailed(database), Stamps[1])
              IN  /\ DOMAIN docs[e] = Roster(e) \cup StampKeys
                  /\ KpiCount(docs[e]) = Cardinality(Roster(e))
                  /\ \A key \in Roster(e) :
                        IF key \in FailedKeys(e)
                        THEN docs[e][key] = ErrorValue
                        ELSE docs[e][key] = unfailed[key]

C15_Witness ==
    /\ pc = "extracted"
    /\ Extracted("operations")
    /\ FailedKeys("operations") = {"trip_delays"}
    /\ docs["operations"]["trip_delays"] = ErrorValue
    /\ docs["operations"]["turnaround_time"] # ErrorValue

\* a value that is the number zero or an empty collection
ZeroOrEmpty(value) ==
    \/ value.type \in {"int", "float"} /\ value.v = 0 /\ Finite(value)
    \/ value.type \in {"dict", "list"} /\ DOMAIN value.items = {}

\* the request was served from the documents of the three extractors
Processed ==
    /\ Finished
    /\ AllExtracted
    /\ faults \cap (SchedulingFaults \cup {"extractor"}) = {}

TurnaroundDefaults(doc) ==
    /\ doc["turnaround_time"].items.overall_avg_tat_hours = PyInt(0)
    /\ doc["turnaround_time"].items.top_bottleneck_locations = PyList(<<>>)

\* C16 as stated: when every query returns an empty result set, every
\* roster key of every extractor holds a shape of zeros and empty
\* collections without an 'error' key, and generate_insights over the
\* documents returns success = true.
C16_EmptyDataGivesZeroShapes ==
    database = AllEmpty =>
        /\ \A e \in ExtractorSet : Extracted(e) =>
              \A key \in Roster(e) :
                  /\ "error" \notin DOMAIN docs[e][key].items
                  /\ \A f \in DOMAIN docs[e][key].items :
                        ZeroOrEmpty(docs[e][key].items[f])
        /\ Extracted("operations") => TurnaroundDefaults(docs["operations"])
        /\ Processed => result.success = TRUE

\* C16 amended: the shapes are zeros and empty collections except for
\* rest_time_compliance, whose rest_time_compliance_rate is 100.
C16_EmptyDataGivesDefaultShapes ==
    database = AllEmpty =>
        /\ \A e \in ExtractorSet : Extracted(e) =>
              \A key \in Roster(e) :
                  /\ "error" \notin DOMAIN docs[e][key].items
                  /\ docs[e][key] = EmptyShape(key)
                  /\ \A f \in DOMAIN docs[e][key].items :
                        IF f = "rest_time_compliance_rate"
                        THEN docs[e][key].items[f] = PyInt(100)
                        ELSE ZeroOrEmpty(docs[e][key].items[f])
        /\ Extracted("operations") => TurnaroundDefaults(docs["operations"])
        /\ Processed => result.success = TRUE

C16_Witness ==
    /\ database = AllEmpty
    /\ Processed
    /\ result.success = TRUE
    /\ docs["safety"]["rest_time_compliance"].items.rest_time_compliance_rate
          = PyInt(100)

-----------------------------------------------------------------------------
(* Sanitizers *)

\* C17: clean_data_for_json is idempotent: for every input built from
\* finite numbers, NaN, +Infinity, -Infinity, strings, booleans, None,
\* dicts, lists and opaque objects, cleaning the cleaned value returns the
\* cleaned value.
C17_CleanIsIdempotent ==
    pc = "recleaned" => recleaned = cleaned

C17_Witness ==
    /\ pc = "recleaned"
    /\ sample.type = "dict"
    /\ \E key \in DOMAIN sample.items : sample.items[key] = PyFloat(1)
    /\ \E key \in DOMAIN sample.items : sample.items[key].type = "object"
    /\ NonFinite(sample)
    /\ cleaned # sample
    /\ recleaned = cleaned

\* C18: no NaN or infinity survives sanitization: safe_float and safe_int
\* return the declared default (0.0 and 0 when none is supplied) for NaN,
\* +Infinity and -Infinity and the finite value otherwise, and the cleaned
\* document of extract_all_kpis has no non-finite number at any depth of
\* its dicts and lists.
C18_NoNonFiniteSurvives ==
    /\ (converted # <<>> /\ sample.type \in {"float", "int"}) =>
          IF Finite(sample)
          THEN /\ converted[1] = PyFloat(sample.v)
               /\ converted[2] = PyInt(sample.v)
               /\ converted[3] = PyFloat(sample.v)
          ELSE /\ converted[1] = DefaultFloat
               /\ converted[2] = DefaultInt
               /\ converted[3] = PyInt(0)
    /\ converted # <<>> =>
          \A i \in 1..Len(converted) :
              converted[i].type \in {"float", "int"} /\ Finite(converted[i])
    /\ pc \in {"cleaned", "recleaned"} => ~NonFinite(cleaned)

C18_Witness ==
    /\ pc = "cleaned"
    /\ sample = PyDict(kpis("safety", Populated(NaN), Stamps[1]))
    /\ NonFinite(sample.items["driving_safety_score"])
    /\ cleaned.items = extract_all_kpis("safety", Populated(NaN), Stamps[1])
    /\ ~NonFinite(cleaned)

-----------------------------------------------------------------------------
(* Derived scores *)

\* every sub-score of the row has the value s
Uniform(m, s) ==
    \A i \in 1..Len(SubScores(m)) : SubScores(m)[i] = s * Denominator(m)

\* C19: in every derived-score blend of the three extractors the fixed
\* weights sum to exactly 1.0, so that a row whose sub-scores all have the
\* value s is given the score s.
C19_WeightsSumToOne ==
    /\ \A blend \in Blends : Total(Weights(blend)) = 100
    /\ pc = "scored" =>
          /\ Len(Weights(metrics.blend)) = Len(SubScores(metrics))
          /\ \A s \in {0, 50, 100} :
                Uniform(metrics, s) => scores.num = s * scores.den

C19_Witness ==
    /\ pc = "scored"
    /\ metrics.blend = "driver_performance_index"
    /\ Uniform(metrics, 100)
    /\ scores.num = 100 * scores.den

\* C20: every sub-score that enters a blend lies in [0,100], so every
\* derived score lies in [0,100] when the stored scores are in [0,100] and
\* the counts, distances, durations and volumes are non-negative.
C20_ScoresWithinRange ==
    pc = "scored" =>
        /\ \A i \in 1..Len(SubScores(metrics)) :
              /\ SubScores(metrics)[i] >= 0
              /\ SubScores(metrics)[i] <= 100 * Denominator(metrics)
        /\ scores.num >= 0
        /\ scores.num <= 100 * scores.den

-----------------------------------------------------------------------------
(* Bucketings *)

\* the tier of x when every cut point belongs to the tier above it
TierOf(x, cuts, labels) == labels[1 + Cardinality({c \in cuts : c <= x})]

CountOf(rows, field, cuts, labels, label) ==
    Cardinality({i \in 1..Len(rows) : TierOf(rows[i][field], cuts, labels) = label})

\* C21: every categorical bucketing is an ordered range check in which a
\* value equal to a cut point is assigned to the higher tier: the driver
\* risk categories (40, 60, 80), the TAT categories (4, 8, 12), the
\* safety-score distribution (60, 75, 90) and the fatigue risk categories
\* (30, 60).
C21_CutPointsBelongToHigherTier ==
    pc = "bucketed" =>
        LET rows == frame.rows
        IN  /\ frame.query = "driver_risk_vs_tat_heatmap" =>
                  \A i \in 1..Len(rows) :
                      /\ buckets.risk_category[i] =
                            TierOf(rows[i].driver_risk_score, {40, 60, 80}, RiskLabels)
                      /\ buckets.tat_category[i] =
                            TierOf(rows[i].avg_tat_hours, {4, 8, 12}, TatLabels)
            /\ frame.query = "driving_safety_score" =>
                  \A label \in {"poor", "average", "good", "excellent"} :
                      buckets.safety_distribution[label] =
                          CountOf(rows, "safety_score", {60, 75, 90},
                                  <<"poor", "average", "good", "excellent">>, label)
            /\ frame.query = "fatigue_scoring" =>
                  \A i \in 1..Len(rows) :
                      buckets.fatigue_risk_category[i] =
                          TierOf(rows[i].fatigue_score, {30, 60},
                                 <<"High Risk", "Medium Risk", "Low Risk">>)

\* the sum of the counts of the cells
RECURSIVE SumOver(_, _)
SumOver(counts, cells) ==
    IF cells = {} THEN 0
    ELSE LET cell == CHOOSE c \in cells : TRUE
         IN  counts[cell] + SumOver(counts, cells \ {cell})

\* C29: in the driver risk-vs-TAT heatmap every analysed driver falls into
\* exactly one (risk_category, tat_category) cell: for driver_risk_score in
\* [0,100] and avg_tat_hours >= 0 the driver_count values of heatmap_data
\* sum to total_drivers_analyzed.
C29_HeatmapCountsEveryDriver ==
    (pc = "bucketed" /\ frame.query = "driver_risk_vs_tat_heatmap") =>
        /\ \A i \in 1..Len(frame.rows) :
              <<buckets.risk_category[i], buckets.tat_category[i]>>
                  \in DOMAIN buckets.heatmap_data
        /\ SumOver(buckets.heatmap_data, DOMAIN buckets.heatmap_data)
              = buckets.total_drivers_analyzed

-----------------------------------------------------------------------------
(* Rosters and the context of the collaborator *)

\* main.py lines 243-252 and 365-373: the combined KPIs the service lists
AdvertisedCombinedKpis ==
    {"safe_on_time_delivery_rate", "driver_risk_vs_tat_heatmap",
     "top_routes_by_risk_weighted_efficiency", "rr_eligible_trips",
     "driver_engagement_index", "transporter_composite_score",
     "fatigue_risk_by_route_and_time", "driver_performance_index"}

\* C22: the document returned by CombinedKPIExtractor.extract_all_kpis, and
\* by GET /api/combined-kpis with it, contains all 8 combined KPIs,
\* including the Driver Performance Index under driver_performance_index.
C22_CombinedDocumentHasEightKpis ==
    (pc = "extracted" /\ Extracted("combined")) =>
        /\ "driver_performance_index" \in DOMAIN docs["combined"]
        /\ AdvertisedCombinedKpis \subseteq DOMAIN docs["combined"]
        /\ Cardinality(DOMAIN docs["combined"] \ StampKeys) = 8

-----------------------------------------------------------------------------
(* Fatigue risk score *)

\* C27: in the fatigue-risk score the time-of-day factor is 20 for every
\* departure hour in 22..23 or 0..5, 30 for the hours 14..16 and 50 for
\* every other hour.
C27_TimeOfDayFactor ==
    (pc = "scored" /\ metrics.blend = "fatigue_risk") =>
        SubScores(metrics)[2] =
            IF metrics.departure >= 22 \/ metrics.departure <= 5 THEN 20
            ELSE IF metrics.departure \in 14..16 THEN 30
            ELSE 50

-----------------------------------------------------------------------------
(* Title and description of a section *)

\* the lines of the i-th candidate section of the response text
SectionLines(i) == Split(Strip(Split(response.chars, Marker)[i + 1]), NL)

BeforeFirstColon(line) ==
    LET h == Find(line, Colon, 1)
    IN  IF h = 0 THEN line ELSE SubSeq(line, 1, h - 1)

AfterFirstColon(line) ==
    LET h == Find(line, Colon, 1)
    IN  IF h = 0 THEN line ELSE SubSeq(line, h + 1, Len(line))

\* the entries of the list that come from sections of the response
Parsed == 1..(IF Len(Survivors) < Len(insights) THEN Len(Survivors)
              ELSE Len(insights))

\* C25 as stated: for each accepted candidate section, the insight's title
\* is the text before the first colon on the section's first line, and its
\* description is the remaining lines joined.
C25_TitleBeforeFirstColon ==
    (pc = "parsed" /\ ~response.none) =>
        \A j \in Parsed :
            LET lines == SectionLines(Survivors[j])
            IN  /\ insights[j].title = Strip(BeforeFirstColon(lines[1]))
                /\ insights[j].description = Strip(Join(Tail(lines), NL))

\* C25 as amended: for each accepted candidate section, the insight's title
\* is the text after the first colon on the section's first line (the whole
\* line when it has no colon), stripped of surrounding white space and with
\* every "**" removed, and its description is the remaining lines joined
\* with line feeds and stripped.
C25_TitleAfterFirstColon ==
    (pc = "parsed" /\ ~response.none) =>
        \A j \in Parsed :
            LET lines == SectionLines(Survivors[j])
            IN  /\ insights[j].title =
                      Replace(Strip(AfterFirstColon(lines[1])), Stars, <<>>)
                /\ insights[j].description = Strip(Join(Tail(lines), NL))

C25_Witness ==
    /\ pc = "parsed"
    /\ \E i \in Candidates :
          /\ sections[i] \in ColonTitleKinds
          /\ Listed(i)
          /\ Len(SectionLines(i)) > 2
          /\ Contains(AfterFirstColon(SectionLines(i)[1]), Colon)

-----------------------------------------------------------------------------
(* Tagging *)

\* some word of the list occurs in the text, case-insensitively
Occurs(words, text) ==
    \E k \in 1..Len(words) :
        \E at \in 0..(Len(text) - Len(words[k])) :
            \A c \in 1..Len(words[k]) : LowerChar(text[at + c]) = words[k][c]

\* the text the category of the j-th entry is decided on
TaggedText(j) == insights[j].title \o Space \o insights[j].description

\* C26: insight tagging is an ordered rule table where the first match
\* wins: category is 'safety' if any safety word occurs, else 'operations'
\* if any efficiency/delivery word occurs, else 'combined' if any
\* composite/overall word occurs, else 'general'; priority is 'high' if any
\* urgency word occurs, else 'medium' if any moderate-emphasis word occurs,
\* else 'low'. A text with both a safety word and an operations word is
\* 'safety', and the result is always one of the listed labels.
C26_FirstMatchWins ==
    (pc = "parsed" /\ ~response.none) =>
        \A j \in Parsed :
            LET text == TaggedText(j)
                category == insights[j].category
                priority == insights[j].priority
                safety == Occurs(SafetyWords, text)
                operations == Occurs(OperationsWords, text)
                combined == Occurs(CombinedWords, text)
                high == Occurs(HighWords, insights[j].description)
                medium == Occurs(MediumWords, insights[j].description)
            IN  /\ category \in {"safety", "operations", "combined", "general"}
                /\ priority \in {"high", "medium", "low"}
                /\ (category = "safety") <=> safety
                /\ (category = "operations") <=> (~safety /\ operations)
                /\ (category = "combined") <=>
                      (~safety /\ ~operations /\ combined)
                /\ (category = "general") <=>
                      (~safety /\ ~operations /\ ~combined)
                /\ (priority = "high") <=> high
                /\ (priority = "medium") <=> (~high /\ medium)
                /\ (priority = "low") <=> (~high /\ ~medium)

C26_Witness ==
    /\ pc = "parsed"
    /\ \E j \in Parsed :
          /\ Occurs(SafetyWords, TaggedText(j))
          /\ Occurs(OperationsWords, TaggedText(j))
          /\ insights[j].category = "safety"
    /\ \E j \in Parsed :
          /\ Occurs(HighWords, insights[j].description)
          /\ Occurs(MediumWords, insights[j].description)
          /\ insights[j].priority = "high"
    /\ \E j \in Parsed : insights[j].category = "combined"
    /\ \E j \in Parsed : insights[j].category = "general"
    /\ \E j \in Parsed : insights[j].priority = "medium"

-----------------------------------------------------------------------------
(* The collaborator within and across requests *)

\* C24: within one generate_insights request the external text collaborator
\* is called at most once, on every path (parallel, sequential fallback, AI
\* failure): a failed call is never followed by a second call, and the
\* fallback-to-defaults response is produced instead.
C24_AtMostOneCall ==
    /\ ai_calls <= 1
    /\ (ai_calls = 1) => pc \in {"returned", "responded"}
    /\ (ai_status = "failed") =>
          /\ ai_calls = 1
          /\ result = _generate_fallback_insights

C24_Witness ==
    /\ pc = "responded"
    /\ path = "sequential"
    /\ request = MaxRequests
    /\ client
    /\ ai_status = "failed"
    /\ ai_calls = 1
    /\ result = _generate_fallback_insights

\* C23: insights are produced fresh per request and nothing of a request is
\* kept server-side: after generate_insights returns, the generator and its
\* AI client hold no state derived from that request, so the messages sent
\* to the collaborator for a later request do not depend on the prompts or
\* responses of earlier requests.
C23_NothingKeptOfARequest ==
    /\ (pc \in {"returned", "responded"}) =>
          /\ conversation_history = <<>>
          /\ current_context = NoContext
    /\ \A i \in 1..Len(messages) : messages[i].request = request

\* C28: every headline key that _prepare_kpi_context reads from a metric
\* document is a key the corresponding extractor produces on success, so a
\* headline line of the context never shows the 'N/A' placeholder for a
\* successfully extracted metric.
C28_NoPlaceholderForExtractedMetric ==
    (pc = "chat") =>
        \A e \in ExtractorSet :
            \A metric \in HeadlineMetrics(e) \cap DOMAIN docs[e] :
                ("error" \notin DOMAIN docs[e][metric].items) =>
                    /\ metric \in DOMAIN kpi_context
                    /\ HeadlineKeys[metric] \in DOMAIN docs[e][metric].items
                    /\ kpi_context[metric] # NotAvailable

-----------------------------------------------------------------------------
(* The shared data-source handle *)

\* C30: the shared data-source handle is initialised at most once per
\* process: when the three extractor workers of the parallel fan-out call
\* db.get_engine() concurrently before any engine exists, exactly one engine
\* (one connection pool) is created and every caller, then and later,
\* receives that same engine.
C30_OneEngine ==
    /\ engines <= 1
    /\ \A e \in ExtractorSet, o \in ExtractorSet :
          \A i \in 1..Len(returned[e]), j \in 1..Len(returned[o]) :
              returned[e][i] = returned[o][j]


=============================================================================
